---- MODULE Spec2Model ----
(***************************************************************************)
(* Elevator system: the LOOK car state machine in its three stop-set       *)
(* variants (flag array with cached bounds, uint64 bitmask, bitset), the   *)
(* test drivers that run a car until it is idle, and the dispatcher that   *)
(* assigns requests to the cars of a fleet by cost.                        *)
(***************************************************************************)
EXTENDS Integers, Sequences, FiniteSets, TLC

(* ------------------------------------------------------------------ *)
(* Bounds of the model                                                *)
(* ------------------------------------------------------------------ *)
MinFloor == 1
MaxFloor == 3
MaxRequests == 3
NumCars == 2

(* ------------------------------------------------------------------ *)
(* model.go: enumerations and Request                                 *)
(* ------------------------------------------------------------------ *)
DirIdle == "Idle"
DirUp == "Up"
DirDown == "Down"
Direction == {DirIdle, DirUp, DirDown}

StateIdle == "StateIdle"
StateMovingUp == "StateMovingUp"
StateMovingDown == "StateMovingDown"
StateDoorOpen == "StateDoorOpen"
ElevatorState == {StateIdle, StateMovingUp, StateMovingDown, StateDoorOpen}

HallCall == "HallCall"
CabCall == "CabCall"
RequestType == {HallCall, CabCall}

\* Requests offered to a car: floors one past both ends of the shaft are
\* included; a cab call carries the zero Direction, as in the tests.
Request ==
  { [Floor |-> f, Direction |-> d, Type |-> HallCall] :
      f \in (MinFloor - 1)..(MaxFloor + 1), d \in Direction }
  \cup
  { [Floor |-> f, Direction |-> DirIdle, Type |-> CabCall] :
      f \in (MinFloor - 1)..(MaxFloor + 1) }

doorOpenSteps == 2

NumFloors == MaxFloor - MinFloor + 1
Floors == MinFloor..MaxFloor

(* ------------------------------------------------------------------ *)
(* elevator.go: Elevator, the flag-array variant with cached bounds   *)
(* ------------------------------------------------------------------ *)
\* Mutant: the empty range of cached bounds is encoded with a wrong maximum.
NewElevator_BadSentinel ==
  [ CurrentFloor |-> MinFloor,
    State        |-> StateIdle,
    Direction    |-> DirIdle,
    upStops      |-> [i \in 0..(NumFloors - 1) |-> FALSE],
    downStops    |-> [i \in 0..(NumFloors - 1) |-> FALSE],
    minRequest   |-> MaxFloor + 1,
    maxRequest   |-> MaxFloor,
    doorTimer    |-> 0 ]

NewElevator ==
  [ CurrentFloor |-> MinFloor,
    State        |-> StateIdle,
    Direction    |-> DirIdle,
    upStops      |-> [i \in 0..(NumFloors - 1) |-> FALSE],
    downStops    |-> [i \in 0..(NumFloors - 1) |-> FALSE],
    minRequest   |-> MaxFloor + 1,
    maxRequest   |-> MinFloor - 1,
    doorTimer    |-> 0 ]

Elevator_idx(floor) == floor - MinFloor

Elevator_hasStopsAbove(e) == e.maxRequest > e.CurrentFloor

Elevator_hasStopsBelow(e) == e.minRequest < e.CurrentFloor

Elevator_HasPendingRequests(e) == e.minRequest <= e.maxRequest

\* The loop of recalcBounds over the indices i, i+1, ... of upStops.
RECURSIVE Elevator_recalcLoop(_, _)
Elevator_recalcLoop(e, i) ==
  IF i > NumFloors - 1 THEN e
  ELSE IF e.upStops[i] \/ e.downStops[i]
       THEN LET floor == i + MinFloor
                e1 == IF floor < e.minRequest
                      THEN [e EXCEPT !.minRequest = floor] ELSE e
                e2 == IF floor > e1.maxRequest
                      THEN [e1 EXCEPT !.maxRequest = floor] ELSE e1
            IN Elevator_recalcLoop(e2, i + 1)
       ELSE Elevator_recalcLoop(e, i + 1)

Elevator_recalcBounds(e) ==
  Elevator_recalcLoop(
    [e EXCEPT !.minRequest = MaxFloor + 1, !.maxRequest = MinFloor - 1], 0)

\* Mutant: the cached bounds are never recomputed when a stop is removed.
Elevator_openDoor_NoRecalc(e) ==
  LET i == Elevator_idx(e.CurrentFloor)
  IN [e EXCEPT !.State = StateDoorOpen,
               !.doorTimer = doorOpenSteps,
               !.upStops[i] = FALSE,
               !.downStops[i] = FALSE]

Elevator_openDoor(e) ==
  LET i  == Elevator_idx(e.CurrentFloor)
      e1 == [e EXCEPT !.State = StateDoorOpen,
                      !.doorTimer = doorOpenSteps,
                      !.upStops[i] = FALSE,
                      !.downStops[i] = FALSE]
  IN IF e1.CurrentFloor = e1.minRequest \/ e1.CurrentFloor = e1.maxRequest
     THEN Elevator_recalcBounds(e1)
     ELSE e1

Elevator_AddRequest(e, r) ==
  IF r.Floor < MinFloor \/ r.Floor > MaxFloor THEN e
  ELSE IF r.Floor = e.CurrentFloor
          /\ (e.State = StateIdle \/ e.State = StateDoorOpen)
  THEN Elevator_openDoor(e)
  ELSE
    LET i  == Elevator_idx(r.Floor)
        e1 == IF r.Type = HallCall
              THEN IF r.Direction = DirUp
                   THEN [e EXCEPT !.upStops[i] = TRUE]
                   ELSE [e EXCEPT !.downStops[i] = TRUE]
              ELSE IF r.Floor > e.CurrentFloor
                   THEN [e EXCEPT !.upStops[i] = TRUE]
                   ELSE IF r.Floor < e.CurrentFloor
                        THEN [e EXCEPT !.downStops[i] = TRUE]
                        ELSE e
        e2 == IF r.Floor < e1.minRequest
              THEN [e1 EXCEPT !.minRequest = r.Floor] ELSE e1
        e3 == IF r.Floor > e2.maxRequest
              THEN [e2 EXCEPT !.maxRequest = r.Floor] ELSE e2
    IN IF e3.State = StateIdle
       THEN IF r.Floor > e3.CurrentFloor
            THEN [e3 EXCEPT !.Direction = DirUp, !.State = StateMovingUp]
            ELSE IF r.Floor < e3.CurrentFloor
                 THEN [e3 EXCEPT !.Direction = DirDown,
                                 !.State = StateMovingDown]
                 ELSE e3
       ELSE e3

Elevator_pickDirection(e) ==
  LET idle == [e EXCEPT !.Direction = DirIdle, !.State = StateIdle]
  IN CASE e.Direction = DirUp ->
            IF Elevator_hasStopsAbove(e)
            THEN [e EXCEPT !.State = StateMovingUp]
            ELSE IF Elevator_hasStopsBelow(e)
                 THEN [e EXCEPT !.Direction = DirDown,
                                !.State = StateMovingDown]
                 ELSE idle
       [] e.Direction = DirDown ->
            IF Elevator_hasStopsBelow(e)
            THEN [e EXCEPT !.State = StateMovingDown]
            ELSE IF Elevator_hasStopsAbove(e)
                 THEN [e EXCEPT !.Direction = DirUp,
                                !.State = StateMovingUp]
                 ELSE idle
       [] OTHER ->
            IF Elevator_hasStopsAbove(e)
            THEN [e EXCEPT !.Direction = DirUp, !.State = StateMovingUp]
            ELSE IF Elevator_hasStopsBelow(e)
                 THEN [e EXCEPT !.Direction = DirDown,
                                !.State = StateMovingDown]
                 ELSE idle

\* Mutant: the door stays open one step too long (>= instead of >).
Elevator_stepDoorOpen_LateClose(e) ==
  LET e1 == [e EXCEPT !.doorTimer = e.doorTimer - 1]
  IN IF e1.doorTimer >= 0 THEN e1
     ELSE Elevator_pickDirection([e1 EXCEPT !.State = StateIdle])

Elevator_stepDoorOpen(e) ==
  LET e1 == [e EXCEPT !.doorTimer = e.doorTimer - 1]
  IN IF e1.doorTimer > 0 THEN e1
     ELSE Elevator_pickDirection([e1 EXCEPT !.State = StateIdle])

Elevator_shouldStop(e, dir) ==
  LET i == Elevator_idx(e.CurrentFloor)
  IN IF dir = DirUp
     THEN IF e.upStops[i] THEN TRUE
          ELSE IF ~Elevator_hasStopsAbove(e) /\ e.downStops[i] THEN TRUE
          ELSE FALSE
     ELSE IF e.downStops[i] THEN TRUE
          ELSE IF ~Elevator_hasStopsBelow(e) /\ e.upStops[i] THEN TRUE
          ELSE FALSE

Elevator_stepMove(e, dir) ==
  LET e1 == IF dir = DirUp
            THEN [e EXCEPT !.CurrentFloor = e.CurrentFloor + 1]
            ELSE [e EXCEPT !.CurrentFloor = e.CurrentFloor - 1]
  IN IF Elevator_shouldStop(e1, dir) THEN Elevator_openDoor(e1) ELSE e1

Elevator_stepIdle(e) == Elevator_pickDirection(e)

Elevator_Step(e) ==
  CASE e.State = StateDoorOpen   -> Elevator_stepDoorOpen(e)
    [] e.State = StateMovingUp   -> Elevator_stepMove(e, DirUp)
    [] e.State = StateMovingDown -> Elevator_stepMove(e, DirDown)
    [] OTHER                     -> Elevator_stepIdle(e)

\* The description Step returns (without the car's ID): what happened, the
\* floor, and the timer or direction the text names.
Elevator_StepMsg(e) ==
  LET e1 == Elevator_Step(e)
  IN CASE e.State = StateDoorOpen ->
            IF e1.doorTimer > 0
            THEN [what |-> "door open", floor |-> e1.CurrentFloor,
                  detail |-> e1.doorTimer]
            ELSE [what |-> "door closed", floor |-> e1.CurrentFloor,
                  detail |-> e1.Direction]
       [] e.State \in {StateMovingUp, StateMovingDown} ->
            [what |-> "moved", floor |-> e1.CurrentFloor,
             detail |-> IF e1.State = StateDoorOpen THEN "STOP" ELSE ""]
       [] OTHER ->
            IF e1.State = StateIdle
            THEN [what |-> "idle", floor |-> e1.CurrentFloor, detail |-> ""]
            ELSE [what |-> "starting", floor |-> e1.CurrentFloor,
                  detail |-> e1.Direction]

Elevator_PendingCount(e) ==
  Cardinality({i \in DOMAIN e.upStops : e.upStops[i]})
  + Cardinality({i \in DOMAIN e.downStops : e.downStops[i]})

\* StopsSnapshot: the floors marked in each set (ascending in the code).
Elevator_StopsSnapshot(e) ==
  [ up   |-> {i + MinFloor : i \in {j \in DOMAIN e.upStops : e.upStops[j]}},
    down |-> {i + MinFloor : i \in {j \in DOMAIN e.downStops : e.downStops[j]}} ]

(* ------------------------------------------------------------------ *)
(* BitmaskElevator: stops kept in two uint64 words.  A word is        *)
(* modelled by the set of its set bit positions, 0..63.               *)
(* ------------------------------------------------------------------ *)
bitmaskMaxFloors == 64
WordBits == 0..(bitmaskMaxFloors - 1)

NewBitmaskElevator ==
  [ CurrentFloor |-> MinFloor,
    State        |-> StateIdle,
    Direction    |-> DirIdle,
    upStops      |-> {},
    downStops    |-> {},
    doorTimer    |-> 0 ]

Bitmask_idx(floor) == floor - MinFloor

\* bitmask |= 1 << bit   (a shift by 64 or more yields 0)
set(bitmask, bit) == bitmask \cup ({bit} \cap WordBits)

\* bitmask &^= 1 << bit
clear(bitmask, bit) == bitmask \ {bit}

\* bitmask & (1 << bit) != 0
has(bitmask, bit) == (bitmask \cap ({bit} \cap WordBits)) # {}

\* ^uint64(0) << (bit + 1)
aboveMask(bit) ==
  IF bit >= 63 THEN {} ELSE {b \in WordBits : b >= bit + 1}

\* (1 << bit) - 1
belowMask(bit) ==
  IF bit = 0 THEN {} ELSE {b \in WordBits : b < bit}

\* Mutant: only the up word is consulted.
Bitmask_hasStopsAbove_UpOnly(e) ==
  LET mask == aboveMask(Bitmask_idx(e.CurrentFloor))
  IN (e.upStops \cap mask) # {}

Bitmask_hasStopsAbove(e) ==
  LET mask == aboveMask(Bitmask_idx(e.CurrentFloor))
  IN ((e.upStops \cup e.downStops) \cap mask) # {}

\* Mutant: only the down word is consulted.
Bitmask_hasStopsBelow_DownOnly(e) ==
  LET mask == belowMask(Bitmask_idx(e.CurrentFloor))
  IN (e.downStops \cap mask) # {}

Bitmask_hasStopsBelow(e) ==
  LET mask == belowMask(Bitmask_idx(e.CurrentFloor))
  IN ((e.upStops \cup e.downStops) \cap mask) # {}

Bitmask_HasPendingRequests(e) == (e.upStops \cup e.downStops) # {}

Bitmask_PendingCount(e) == Cardinality(e.upStops) + Cardinality(e.downStops)

Bitmask_StopsSnapshot(e) ==
  [ up   |-> {i + MinFloor : i \in e.upStops},
    down |-> {i + MinFloor : i \in e.downStops} ]

\* Mutant: the turnaround does not clear the opposite-direction stop.
Bitmask_openDoor_NoTurnaround(e, dir) ==
  LET bit == Bitmask_idx(e.CurrentFloor)
      e1  == [e EXCEPT !.State = StateDoorOpen, !.doorTimer = doorOpenSteps]
      e2  == IF dir = DirUp \/ dir = DirIdle
             THEN [e1 EXCEPT !.upStops = clear(e1.upStops, bit)] ELSE e1
  IN IF dir = DirDown \/ dir = DirIdle
     THEN [e2 EXCEPT !.downStops = clear(e2.downStops, bit)] ELSE e2

Bitmask_openDoor(e, dir) ==
  LET bit == Bitmask_idx(e.CurrentFloor)
      e1  == [e EXCEPT !.State = StateDoorOpen, !.doorTimer = doorOpenSteps]
      e2  == IF dir = DirUp \/ dir = DirIdle
             THEN [e1 EXCEPT !.upStops = clear(e1.upStops, bit)] ELSE e1
      e3  == IF dir = DirDown \/ dir = DirIdle
             THEN [e2 EXCEPT !.downStops = clear(e2.downStops, bit)] ELSE e2
      e4  == IF dir = DirUp /\ ~Bitmask_hasStopsAbove(e3)
             THEN [e3 EXCEPT !.downStops = clear(e3.downStops, bit)] ELSE e3
  IN IF dir = DirDown /\ ~Bitmask_hasStopsBelow(e4)
     THEN [e4 EXCEPT !.upStops = clear(e4.upStops, bit)] ELSE e4

\* Mutant: an idle car sets off in the direction of the hall call instead
\* of the direction in which the request floor lies.
Bitmask_AddRequest_HallDirection(e, r) ==
  IF r.Floor < MinFloor \/ r.Floor > MaxFloor THEN e
  ELSE IF r.Floor = e.CurrentFloor
          /\ (e.State = StateIdle \/ e.State = StateDoorOpen)
  THEN Bitmask_openDoor(e, DirIdle)
  ELSE
    LET bit == Bitmask_idx(r.Floor)
        e1  == IF r.Type = HallCall
               THEN IF r.Direction = DirUp
                    THEN [e EXCEPT !.upStops = set(e.upStops, bit)]
                    ELSE [e EXCEPT !.downStops = set(e.downStops, bit)]
               ELSE IF r.Floor > e.CurrentFloor
                    THEN [e EXCEPT !.upStops = set(e.upStops, bit)]
                    ELSE IF r.Floor < e.CurrentFloor
                         THEN [e EXCEPT !.downStops = set(e.downStops, bit)]
                         ELSE e
    IN IF e1.State = StateIdle
       THEN IF r.Type = HallCall /\ r.Direction = DirUp
            THEN [e1 EXCEPT !.Direction = DirUp, !.State = StateMovingUp]
            ELSE IF r.Type = HallCall /\ r.Direction = DirDown
                 THEN [e1 EXCEPT !.Direction = DirDown,
                                 !.State = StateMovingDown]
                 ELSE IF r.Floor > e1.CurrentFloor
                      THEN [e1 EXCEPT !.Direction = DirUp,
                                      !.State = StateMovingUp]
                      ELSE [e1 EXCEPT !.Direction = DirDown,
                                      !.State = StateMovingDown]
       ELSE e1

\* Mutant: the upper range check is off by one.
Bitmask_AddRequest_OffByOne(e, r) ==
  IF r.Floor < MinFloor \/ r.Floor > MaxFloor + 1 THEN e
  ELSE IF r.Floor = e.CurrentFloor
          /\ (e.State = StateIdle \/ e.State = StateDoorOpen)
  THEN Bitmask_openDoor(e, DirIdle)
  ELSE
    LET bit == Bitmask_idx(r.Floor)
        e1  == IF r.Type = HallCall
               THEN IF r.Direction = DirUp
                    THEN [e EXCEPT !.upStops = set(e.upStops, bit)]
                    ELSE [e EXCEPT !.downStops = set(e.downStops, bit)]
               ELSE IF r.Floor > e.CurrentFloor
                    THEN [e EXCEPT !.upStops = set(e.upStops, bit)]
                    ELSE IF r.Floor < e.CurrentFloor
                         THEN [e EXCEPT !.downStops = set(e.downStops, bit)]
                         ELSE e
    IN IF e1.State = StateIdle
       THEN IF r.Floor > e1.CurrentFloor
            THEN [e1 EXCEPT !.Direction = DirUp, !.State = StateMovingUp]
            ELSE IF r.Floor < e1.CurrentFloor
                 THEN [e1 EXCEPT !.Direction = DirDown,
                                 !.State = StateMovingDown]
                 ELSE e1
       ELSE e1

\* Mutant: a request also starts a car that is already moving.
Bitmask_AddRequest_Divert(e, r) ==
  IF r.Floor < MinFloor \/ r.Floor > MaxFloor THEN e
  ELSE IF r.Floor = e.CurrentFloor
          /\ (e.State = StateIdle \/ e.State = StateDoorOpen)
  THEN Bitmask_openDoor(e, DirIdle)
  ELSE
    LET bit == Bitmask_idx(r.Floor)
        e1  == IF r.Type = HallCall
               THEN IF r.Direction = DirUp
                    THEN [e EXCEPT !.upStops = set(e.upStops, bit)]
                    ELSE [e EXCEPT !.downStops = set(e.downStops, bit)]
               ELSE IF r.Floor > e.CurrentFloor
                    THEN [e EXCEPT !.upStops = set(e.upStops, bit)]
                    ELSE IF r.Floor < e.CurrentFloor
                         THEN [e EXCEPT !.downStops = set(e.downStops, bit)]
                         ELSE e
    IN IF e1.State # StateDoorOpen
       THEN IF r.Floor > e1.CurrentFloor
            THEN [e1 EXCEPT !.Direction = DirUp, !.State = StateMovingUp]
            ELSE IF r.Floor < e1.CurrentFloor
                 THEN [e1 EXCEPT !.Direction = DirDown,
                                 !.State = StateMovingDown]
                 ELSE e1
       ELSE e1

Bitmask_AddRequest(e, r) ==
  IF r.Floor < MinFloor \/ r.Floor > MaxFloor THEN e
  ELSE IF r.Floor = e.CurrentFloor
          /\ (e.State = StateIdle \/ e.State = StateDoorOpen)
  THEN Bitmask_openDoor(e, DirIdle)
  ELSE
    LET bit == Bitmask_idx(r.Floor)
        e1  == IF r.Type = HallCall
               THEN IF r.Direction = DirUp
                    THEN [e EXCEPT !.upStops = set(e.upStops, bit)]
                    ELSE [e EXCEPT !.downStops = set(e.downStops, bit)]
               ELSE IF r.Floor > e.CurrentFloor
                    THEN [e EXCEPT !.upStops = set(e.upStops, bit)]
                    ELSE IF r.Floor < e.CurrentFloor
                         THEN [e EXCEPT !.downStops = set(e.downStops, bit)]
                         ELSE e
    IN IF e1.State = StateIdle
       THEN IF r.Floor > e1.CurrentFloor
            THEN [e1 EXCEPT !.Direction = DirUp, !.State = StateMovingUp]
            ELSE IF r.Floor < e1.CurrentFloor
                 THEN [e1 EXCEPT !.Direction = DirDown,
                                 !.State = StateMovingDown]
                 ELSE e1
       ELSE e1

\* Mutant: a car that runs out of requests keeps its direction.
Bitmask_pickDirection_KeepDirection(e) ==
  LET idle == [e EXCEPT !.State = StateIdle]
  IN CASE e.Direction = DirUp ->
            IF Bitmask_hasStopsAbove(e)
            THEN [e EXCEPT !.State = StateMovingUp]
            ELSE IF Bitmask_hasStopsBelow(e)
                 THEN [e EXCEPT !.Direction = DirDown,
                                !.State = StateMovingDown]
                 ELSE idle
       [] e.Direction = DirDown ->
            IF Bitmask_hasStopsBelow(e)
            THEN [e EXCEPT !.State = StateMovingDown]
            ELSE IF Bitmask_hasStopsAbove(e)
                 THEN [e EXCEPT !.Direction = DirUp,
                                !.State = StateMovingUp]
                 ELSE idle
       [] OTHER ->
            IF Bitmask_hasStopsAbove(e)
            THEN [e EXCEPT !.Direction = DirUp, !.State = StateMovingUp]
            ELSE IF Bitmask_hasStopsBelow(e)
                 THEN [e EXCEPT !.Direction = DirDown,
                                !.State = StateMovingDown]
                 ELSE idle

Bitmask_pickDirection(e) ==
  LET idle == [e EXCEPT !.Direction = DirIdle, !.State = StateIdle]
  IN CASE e.Direction = DirUp ->
            IF Bitmask_hasStopsAbove(e)
            THEN [e EXCEPT !.State = StateMovingUp]
            ELSE IF Bitmask_hasStopsBelow(e)
                 THEN [e EXCEPT !.Direction = DirDown,
                                !.State = StateMovingDown]
                 ELSE idle
       [] e.Direction = DirDown ->
            IF Bitmask_hasStopsBelow(e)
            THEN [e EXCEPT !.State = StateMovingDown]
            ELSE IF Bitmask_hasStopsAbove(e)
                 THEN [e EXCEPT !.Direction = DirUp,
                                !.State = StateMovingUp]
                 ELSE idle
       [] OTHER ->
            IF Bitmask_hasStopsAbove(e)
            THEN [e EXCEPT !.Direction = DirUp, !.State = StateMovingUp]
            ELSE IF Bitmask_hasStopsBelow(e)
                 THEN [e EXCEPT !.Direction = DirDown,
                                !.State = StateMovingDown]
                 ELSE idle

Bitmask_stepDoorOpen(e) ==
  LET e1 == [e EXCEPT !.doorTimer = e.doorTimer - 1]
  IN IF e1.doorTimer > 0 THEN e1
     ELSE Bitmask_pickDirection([e1 EXCEPT !.State = StateIdle])

\* Mutant: a car stops at every marked floor, whatever the direction.
Bitmask_shouldStop_AnyMark(e, dir) ==
  LET bit == Bitmask_idx(e.CurrentFloor)
  IN has(e.upStops, bit) \/ has(e.downStops, bit)

\* Mutant: a car stops only for stops of its own direction.
Bitmask_shouldStop_OwnDirOnly(e, dir) ==
  LET bit == Bitmask_idx(e.CurrentFloor)
  IN IF dir = DirUp THEN has(e.upStops, bit) ELSE has(e.downStops, bit)

Bitmask_shouldStop(e, dir) ==
  LET bit == Bitmask_idx(e.CurrentFloor)
  IN IF dir = DirUp
     THEN IF has(e.upStops, bit) THEN TRUE
          ELSE IF ~Bitmask_hasStopsAbove(e) /\ has(e.downStops, bit) THEN TRUE
          ELSE FALSE
     ELSE IF has(e.downStops, bit) THEN TRUE
          ELSE IF ~Bitmask_hasStopsBelow(e) /\ has(e.upStops, bit) THEN TRUE
          ELSE FALSE

Bitmask_stepMove(e, dir) ==
  LET e1 == IF dir = DirUp
            THEN [e EXCEPT !.CurrentFloor = e.CurrentFloor + 1]
            ELSE [e EXCEPT !.CurrentFloor = e.CurrentFloor - 1]
  IN IF Bitmask_shouldStop(e1, dir) THEN Bitmask_openDoor(e1, dir) ELSE e1

Bitmask_stepIdle(e) == Bitmask_pickDirection(e)

Bitmask_Step(e) ==
  CASE e.State = StateDoorOpen   -> Bitmask_stepDoorOpen(e)
    [] e.State = StateMovingUp   -> Bitmask_stepMove(e, DirUp)
    [] e.State = StateMovingDown -> Bitmask_stepMove(e, DirDown)
    [] OTHER                     -> Bitmask_stepIdle(e)

(* ------------------------------------------------------------------ *)
(* BitsetElevator: stops kept in two bitset.BitSet values.  A BitSet  *)
(* is modelled by the set of its set bit indices; the operations below *)
(* are the ones the car calls.                                        *)
(* ------------------------------------------------------------------ *)
BitSet_Set(b, i) == b \cup {i}
BitSet_Clear(b, i) == b \ {i}
BitSet_Test(b, i) == i \in b
BitSet_Any(b) == b # {}
BitSet_Count(b) == Cardinality(b)

\* NextSet(i): the lowest set bit at or after i and true, or (0, false).
BitSet_NextSet(b, i) ==
  LET from == {j \in b : j >= i}
  IN IF from = {} THEN <<0, FALSE>>
     ELSE <<CHOOSE j \in from : \A k \in from : j <= k, TRUE>>

NewBitsetElevator ==
  [ CurrentFloor |-> MinFloor,
    State        |-> StateIdle,
    Direction    |-> DirIdle,
    upStops      |-> {},
    downStops    |-> {},
    doorTimer    |-> 0 ]

Bitset_idx(floor) == floor - MinFloor

\* Mutant: NextSet is queried from idx instead of idx + 1.
Bitset_hasStopsAbove_FromCurrent(e) ==
  LET start    == Bitset_idx(e.CurrentFloor)
      n        == MaxFloor - MinFloor + 1
      upNext   == BitSet_NextSet(e.upStops, start)
      downNext == BitSet_NextSet(e.downStops, start)
  IN IF upNext[2] /\ upNext[1] < n THEN TRUE
     ELSE IF downNext[2] /\ downNext[1] < n THEN TRUE
     ELSE FALSE

Bitset_hasStopsAbove(e) ==
  LET start    == Bitset_idx(e.CurrentFloor) + 1
      n        == MaxFloor - MinFloor + 1
      upNext   == BitSet_NextSet(e.upStops, start)
      downNext == BitSet_NextSet(e.downStops, start)
  IN IF upNext[2] /\ upNext[1] < n THEN TRUE
     ELSE IF downNext[2] /\ downNext[1] < n THEN TRUE
     ELSE FALSE

\* Mutant: only the up set is consulted.
Bitset_hasStopsBelow_UpOnly(e) ==
  LET cur    == Bitset_idx(e.CurrentFloor)
      upNext == BitSet_NextSet(e.upStops, 0)
  IN IF cur = 0 THEN FALSE
     ELSE IF upNext[2] /\ upNext[1] < cur THEN TRUE
     ELSE FALSE

Bitset_hasStopsBelow(e) ==
  LET cur      == Bitset_idx(e.CurrentFloor)
      upNext   == BitSet_NextSet(e.upStops, 0)
      downNext == BitSet_NextSet(e.downStops, 0)
  IN IF cur = 0 THEN FALSE
     ELSE IF upNext[2] /\ upNext[1] < cur THEN TRUE
     ELSE IF downNext[2] /\ downNext[1] < cur THEN TRUE
     ELSE FALSE

Bitset_HasPendingRequests(e) ==
  BitSet_Any(e.upStops) \/ BitSet_Any(e.downStops)

\* Mutant: the two sets are merged before counting.
Bitset_PendingCount_Union(e) == BitSet_Count(e.upStops \cup e.downStops)

Bitset_PendingCount(e) == BitSet_Count(e.upStops) + BitSet_Count(e.downStops)

Bitset_StopsSnapshot(e) ==
  LET n == MaxFloor - MinFloor + 1
  IN [ up   |-> {i + MinFloor : i \in {j \in e.upStops : j < n}},
       down |-> {i + MinFloor : i \in {j \in e.downStops : j < n}} ]

Bitset_openDoor(e, dir) ==
  LET i   == Bitset_idx(e.CurrentFloor)
      e1  == [e EXCEPT !.State = StateDoorOpen, !.doorTimer = doorOpenSteps]
      e2  == IF dir = DirUp \/ dir = DirIdle
             THEN [e1 EXCEPT !.upStops = BitSet_Clear(e1.upStops, i)] ELSE e1
      e3  == IF dir = DirDown \/ dir = DirIdle
             THEN [e2 EXCEPT !.downStops = BitSet_Clear(e2.downStops, i)]
             ELSE e2
      e4  == IF dir = DirUp /\ ~Bitset_hasStopsAbove(e3)
             THEN [e3 EXCEPT !.downStops = BitSet_Clear(e3.downStops, i)]
             ELSE e3
  IN IF dir = DirDown /\ ~Bitset_hasStopsBelow(e4)
     THEN [e4 EXCEPT !.upStops = BitSet_Clear(e4.upStops, i)] ELSE e4

\* Mutant: the door re-open rule is applied to an idle car only.
Bitset_AddRequest_IdleOnlyReopen(e, r) ==
  IF r.Floor < MinFloor \/ r.Floor > MaxFloor THEN e
  ELSE IF r.Floor = e.CurrentFloor /\ e.State = StateIdle
  THEN Bitset_openDoor(e, DirIdle)
  ELSE
    LET i  == Bitset_idx(r.Floor)
        e1 == IF r.Type = HallCall
              THEN IF r.Direction = DirUp
                   THEN [e EXCEPT !.upStops = BitSet_Set(e.upStops, i)]
                   ELSE [e EXCEPT !.downStops = BitSet_Set(e.downStops, i)]
              ELSE IF r.Floor > e.CurrentFloor
                   THEN [e EXCEPT !.upStops = BitSet_Set(e.upStops, i)]
                   ELSE IF r.Floor < e.CurrentFloor
                        THEN [e EXCEPT !.downStops = BitSet_Set(e.downStops, i)]
                        ELSE e
    IN IF e1.State = StateIdle
       THEN IF r.Floor > e1.CurrentFloor
            THEN [e1 EXCEPT !.Direction = DirUp, !.State = StateMovingUp]
            ELSE IF r.Floor < e1.CurrentFloor
                 THEN [e1 EXCEPT !.Direction = DirDown,
                                 !.State = StateMovingDown]
                 ELSE e1
       ELSE e1

\* Mutant: the bit of the floor is flipped instead of set.
Bitset_AddRequest_Flip(e, r) ==
  IF r.Floor < MinFloor \/ r.Floor > MaxFloor THEN e
  ELSE IF r.Floor = e.CurrentFloor
          /\ (e.State = StateIdle \/ e.State = StateDoorOpen)
  THEN Bitset_openDoor(e, DirIdle)
  ELSE
    LET i  == Bitset_idx(r.Floor)
        flip(b) == IF i \in b THEN b \ {i} ELSE b \cup {i}
        e1 == IF r.Type = HallCall
              THEN IF r.Direction = DirUp
                   THEN [e EXCEPT !.upStops = flip(e.upStops)]
                   ELSE [e EXCEPT !.downStops = flip(e.downStops)]
              ELSE IF r.Floor > e.CurrentFloor
                   THEN [e EXCEPT !.upStops = flip(e.upStops)]
                   ELSE IF r.Floor < e.CurrentFloor
                        THEN [e EXCEPT !.downStops = flip(e.downStops)]
                        ELSE e
    IN IF e1.State = StateIdle
       THEN IF r.Floor > e1.CurrentFloor
            THEN [e1 EXCEPT !.Direction = DirUp, !.State = StateMovingUp]
            ELSE IF r.Floor < e1.CurrentFloor
                 THEN [e1 EXCEPT !.Direction = DirDown,
                                 !.State = StateMovingDown]
                 ELSE e1
       ELSE e1

\* Mutant: a request also starts a car that is already moving.
Bitset_AddRequest_Divert(e, r) ==
  IF r.Floor < MinFloor \/ r.Floor > MaxFloor THEN e
  ELSE IF r.Floor = e.CurrentFloor
          /\ (e.State = StateIdle \/ e.State = StateDoorOpen)
  THEN Bitset_openDoor(e, DirIdle)
  ELSE
    LET i  == Bitset_idx(r.Floor)
        e1 == IF r.Type = HallCall
              THEN IF r.Direction = DirUp
                   THEN [e EXCEPT !.upStops = BitSet_Set(e.upStops, i)]
                   ELSE [e EXCEPT !.downStops = BitSet_Set(e.downStops, i)]
              ELSE IF r.Floor > e.CurrentFloor
                   THEN [e EXCEPT !.upStops = BitSet_Set(e.upStops, i)]
                   ELSE IF r.Floor < e.CurrentFloor
                        THEN [e EXCEPT !.downStops = BitSet_Set(e.downStops, i)]
                        ELSE e
    IN IF e1.State # StateDoorOpen
       THEN IF r.Floor > e1.CurrentFloor
            THEN [e1 EXCEPT !.Direction = DirUp, !.State = StateMovingUp]
            ELSE IF r.Floor < e1.CurrentFloor
                 THEN [e1 EXCEPT !.Direction = DirDown,
                                 !.State = StateMovingDown]
                 ELSE e1
       ELSE e1

Bitset_AddRequest(e, r) ==
  IF r.Floor < MinFloor \/ r.Floor > MaxFloor THEN e
  ELSE IF r.Floor = e.CurrentFloor
          /\ (e.State = StateIdle \/ e.State = StateDoorOpen)
  THEN Bitset_openDoor(e, DirIdle)
  ELSE
    LET i  == Bitset_idx(r.Floor)
        e1 == IF r.Type = HallCall
              THEN IF r.Direction = DirUp
                   THEN [e EXCEPT !.upStops = BitSet_Set(e.upStops, i)]
                   ELSE [e EXCEPT !.downStops = BitSet_Set(e.downStops, i)]
              ELSE IF r.Floor > e.CurrentFloor
                   THEN [e EXCEPT !.upStops = BitSet_Set(e.upStops, i)]
                   ELSE IF r.Floor < e.CurrentFloor
                        THEN [e EXCEPT !.downStops = BitSet_Set(e.downStops, i)]
                        ELSE e
    IN IF e1.State = StateIdle
       THEN IF r.Floor > e1.CurrentFloor
            THEN [e1 EXCEPT !.Direction = DirUp, !.State = StateMovingUp]
            ELSE IF r.Floor < e1.CurrentFloor
                 THEN [e1 EXCEPT !.Direction = DirDown,
                                 !.State = StateMovingDown]
                 ELSE e1
       ELSE e1

\* Mutant: a car with requests left runs on to the end of the shaft before
\* it reverses.
Bitset_pickDirection_Scan(e) ==
  LET idle == [e EXCEPT !.Direction = DirIdle, !.State = StateIdle]
      more == Bitset_HasPendingRequests(e)
  IN CASE e.Direction = DirUp ->
            IF Bitset_hasStopsAbove(e) \/ (more /\ e.CurrentFloor < MaxFloor)
            THEN [e EXCEPT !.State = StateMovingUp]
            ELSE IF Bitset_hasStopsBelow(e)
                 THEN [e EXCEPT !.Direction = DirDown,
                                !.State = StateMovingDown]
                 ELSE idle
       [] e.Direction = DirDown ->
            IF Bitset_hasStopsBelow(e) \/ (more /\ e.CurrentFloor > MinFloor)
            THEN [e EXCEPT !.State = StateMovingDown]
            ELSE IF Bitset_hasStopsAbove(e)
                 THEN [e EXCEPT !.Direction = DirUp,
                                !.State = StateMovingUp]
                 ELSE idle
       [] OTHER ->
            IF Bitset_hasStopsAbove(e)
            THEN [e EXCEPT !.Direction = DirUp, !.State = StateMovingUp]
            ELSE IF Bitset_hasStopsBelow(e)
                 THEN [e EXCEPT !.Direction = DirDown,
                                !.State = StateMovingDown]
                 ELSE idle

Bitset_pickDirection(e) ==
  LET idle == [e EXCEPT !.Direction = DirIdle, !.State = StateIdle]
  IN CASE e.Direction = DirUp ->
            IF Bitset_hasStopsAbove(e)
            THEN [e EXCEPT !.State = StateMovingUp]
            ELSE IF Bitset_hasStopsBelow(e)
                 THEN [e EXCEPT !.Direction = DirDown,
                                !.State = StateMovingDown]
                 ELSE idle
       [] e.Direction = DirDown ->
            IF Bitset_hasStopsBelow(e)
            THEN [e EXCEPT !.State = StateMovingDown]
            ELSE IF Bitset_hasStopsAbove(e)
                 THEN [e EXCEPT !.Direction = DirUp,
                                !.State = StateMovingUp]
                 ELSE idle
       [] OTHER ->
            IF Bitset_hasStopsAbove(e)
            THEN [e EXCEPT !.Direction = DirUp, !.State = StateMovingUp]
            ELSE IF Bitset_hasStopsBelow(e)
                 THEN [e EXCEPT !.Direction = DirDown,
                                !.State = StateMovingDown]
                 ELSE idle

\* Mutant: the door closes on the first Step after the stop.
Bitset_stepDoorOpen_EarlyClose(e) ==
  LET e1 == [e EXCEPT !.doorTimer = e.doorTimer - 1]
  IN IF e1.doorTimer > 1 THEN e1
     ELSE Bitset_pickDirection([e1 EXCEPT !.State = StateIdle])

Bitset_stepDoorOpen(e) ==
  LET e1 == [e EXCEPT !.doorTimer = e.doorTimer - 1]
  IN IF e1.doorTimer > 0 THEN e1
     ELSE Bitset_pickDirection([e1 EXCEPT !.State = StateIdle])

\* Mutant: a stop in the travel direction is honoured only when nothing is
\* pending further on.
Bitset_shouldStop_EndOnly(e, dir) ==
  LET i == Bitset_idx(e.CurrentFloor)
  IN IF dir = DirUp
     THEN ~Bitset_hasStopsAbove(e)
          /\ (BitSet_Test(e.upStops, i) \/ BitSet_Test(e.downStops, i))
     ELSE ~Bitset_hasStopsBelow(e)
          /\ (BitSet_Test(e.downStops, i) \/ BitSet_Test(e.upStops, i))

Bitset_shouldStop(e, dir) ==
  LET i == Bitset_idx(e.CurrentFloor)
  IN IF dir = DirUp
     THEN IF BitSet_Test(e.upStops, i) THEN TRUE
          ELSE IF ~Bitset_hasStopsAbove(e) /\ BitSet_Test(e.downStops, i)
               THEN TRUE
          ELSE FALSE
     ELSE IF BitSet_Test(e.downStops, i) THEN TRUE
          ELSE IF ~Bitset_hasStopsBelow(e) /\ BitSet_Test(e.upStops, i)
               THEN TRUE
          ELSE FALSE

Bitset_stepMove(e, dir) ==
  LET e1 == IF dir = DirUp
            THEN [e EXCEPT !.CurrentFloor = e.CurrentFloor + 1]
            ELSE [e EXCEPT !.CurrentFloor = e.CurrentFloor - 1]
  IN IF Bitset_shouldStop(e1, dir) THEN Bitset_openDoor(e1, dir) ELSE e1

Bitset_stepIdle(e) == Bitset_pickDirection(e)

Bitset_Step(e) ==
  CASE e.State = StateDoorOpen   -> Bitset_stepDoorOpen(e)
    [] e.State = StateMovingUp   -> Bitset_stepMove(e, DirUp)
    [] e.State = StateMovingDown -> Bitset_stepMove(e, DirDown)
    [] OTHER                     -> Bitset_stepIdle(e)

(* ------------------------------------------------------------------ *)
(* The test drivers: runUntilIdle, runBitmaskUntilIdle and            *)
(* runBitsetUntilIdle.  One pass of the loop body on one car.         *)
(* ------------------------------------------------------------------ *)
maxSteps == 50

\* e.Step(); if the door has just opened, append the floor to stops.
runUntilIdle_stops(e1, stops) ==
  IF e1.State = StateDoorOpen /\ e1.doorTimer = doorOpenSteps
  THEN Append(stops, e1.CurrentFloor)
  ELSE stops

\* The loop goes on unless the car is idle with nothing pending, or the
\* step budget is used up.
runUntilIdle_continue(idleAndEmpty, n) == ~idleAndEmpty /\ n < maxSteps

(* ------------------------------------------------------------------ *)
(* dispatcher.go: the Dispatcher over flag-array cars.  The ID of a   *)
(* car is its index in Elevators (NewDispatcher gives car i the ID    *)
(* i+1).                                                              *)
(* ------------------------------------------------------------------ *)
NewDispatcher(n) ==
  [Elevators |-> [k \in 1..n |-> NewElevator],
   MinFloor |-> MinFloor,
   MaxFloor |-> MaxFloor]

abs(x) == IF x < 0 THEN -x ELSE x

\* A number above every cost, standing for math.MaxFloat64.
MaxFloat64 == 1000000

\* Mutant: a request for the floor of the car itself counts as behind it.
Dispatcher_cost_StrictAhead(d, e, r) ==
  LET distance == abs(e.CurrentFloor - r.Floor)
      pending  == Elevator_PendingCount(e)
  IN IF e.State = StateIdle \/ e.Direction = DirIdle
     THEN 2 * distance + pending
     ELSE
       LET movingToward ==
             \/ (e.Direction = DirUp /\ r.Floor > e.CurrentFloor)
             \/ (e.Direction = DirDown /\ r.Floor < e.CurrentFloor)
       IN IF movingToward
          THEN LET sameDir == r.Type = CabCall \/ r.Direction = e.Direction
               IN IF sameDir
                  THEN 2 * distance + pending
                  ELSE LET span == d.MaxFloor - d.MinFloor
                       IN 2 * distance + span + pending
          ELSE LET detour ==
                     IF e.Direction = DirUp
                     THEN (d.MaxFloor - e.CurrentFloor) + (d.MaxFloor - r.Floor)
                     ELSE (e.CurrentFloor - d.MinFloor) + (r.Floor - d.MinFloor)
               IN 2 * detour + pending

\* Mutant: an idle car is charged for its load only.
Dispatcher_cost_IdleNoDistance(d, e, r) ==
  LET distance == abs(e.CurrentFloor - r.Floor)
      pending  == Elevator_PendingCount(e)
  IN IF e.State = StateIdle \/ e.Direction = DirIdle
     THEN pending
     ELSE
       LET movingToward ==
             \/ (e.Direction = DirUp /\ r.Floor >= e.CurrentFloor)
             \/ (e.Direction = DirDown /\ r.Floor <= e.CurrentFloor)
       IN IF movingToward
          THEN LET sameDir == r.Type = CabCall \/ r.Direction = e.Direction
               IN IF sameDir
                  THEN 2 * distance + pending
                  ELSE LET span == d.MaxFloor - d.MinFloor
                       IN 2 * distance + span + pending
          ELSE LET detour ==
                     IF e.Direction = DirUp
                     THEN (d.MaxFloor - e.CurrentFloor) + (d.MaxFloor - r.Floor)
                     ELSE (e.CurrentFloor - d.MinFloor) + (r.Floor - d.MinFloor)
               IN 2 * detour + pending

\* Mutant: a car under way is charged its distance whatever its direction.
Dispatcher_cost_DistanceOnly(d, e, r) ==
  LET distance == abs(e.CurrentFloor - r.Floor)
      pending  == Elevator_PendingCount(e)
  IN IF e.State = StateIdle \/ e.Direction = DirIdle
     THEN 2 * distance + pending
     ELSE
       LET movingToward ==
             \/ (e.Direction = DirUp /\ r.Floor >= e.CurrentFloor)
             \/ (e.Direction = DirDown /\ r.Floor <= e.CurrentFloor)
       IN IF movingToward
          THEN LET sameDir == r.Type = CabCall \/ r.Direction = e.Direction
               IN IF sameDir
                  THEN 2 * distance + pending
                  ELSE LET span == d.MaxFloor - d.MinFloor
                       IN 2 * distance + pending
          ELSE LET detour ==
                     IF e.Direction = DirUp
                     THEN (d.MaxFloor - e.CurrentFloor) + (d.MaxFloor - r.Floor)
                     ELSE (e.CurrentFloor - d.MinFloor) + (r.Floor - d.MinFloor)
               IN 2 * distance + pending

\* Mutant: the load penalty is left out.
Dispatcher_cost_NoLoad(d, e, r) ==
  LET distance == abs(e.CurrentFloor - r.Floor)
      pending  == Elevator_PendingCount(e)
  IN IF e.State = StateIdle \/ e.Direction = DirIdle
     THEN 2 * distance
     ELSE
       LET movingToward ==
             \/ (e.Direction = DirUp /\ r.Floor >= e.CurrentFloor)
             \/ (e.Direction = DirDown /\ r.Floor <= e.CurrentFloor)
       IN IF movingToward
          THEN LET sameDir == r.Type = CabCall \/ r.Direction = e.Direction
               IN IF sameDir
                  THEN 2 * distance
                  ELSE LET span == d.MaxFloor - d.MinFloor
                       IN 2 * distance + span
          ELSE LET detour ==
                     IF e.Direction = DirUp
                     THEN (d.MaxFloor - e.CurrentFloor) + (d.MaxFloor - r.Floor)
                     ELSE (e.CurrentFloor - d.MinFloor) + (r.Floor - d.MinFloor)
               IN 2 * detour

\* Mutant: a car under way with the floor ahead is charged its distance only.
Dispatcher_cost_MovingFree(d, e, r) ==
  LET distance == abs(e.CurrentFloor - r.Floor)
      pending  == Elevator_PendingCount(e)
  IN IF e.State = StateIdle \/ e.Direction = DirIdle
     THEN 2 * distance + pending
     ELSE
       LET movingToward ==
             \/ (e.Direction = DirUp /\ r.Floor >= e.CurrentFloor)
             \/ (e.Direction = DirDown /\ r.Floor <= e.CurrentFloor)
       IN IF movingToward
          THEN LET sameDir == r.Type = CabCall \/ r.Direction = e.Direction
               IN IF sameDir
                  THEN 2 * distance
                  ELSE LET span == d.MaxFloor - d.MinFloor
                       IN 2 * distance
          ELSE LET detour ==
                     IF e.Direction = DirUp
                     THEN (d.MaxFloor - e.CurrentFloor) + (d.MaxFloor - r.Floor)
                     ELSE (e.CurrentFloor - d.MinFloor) + (r.Floor - d.MinFloor)
               IN 2 * detour + pending

\* cost returns a float64 that is always a multiple of 0.5; the operator
\* yields twice that value, so that 0.5*pending is pending and span/2 is
\* span.
Dispatcher_cost(d, e, r) ==
  LET distance == abs(e.CurrentFloor - r.Floor)
      pending  == Elevator_PendingCount(e)
  IN IF e.State = StateIdle \/ e.Direction = DirIdle
     THEN 2 * distance + pending
     ELSE
       LET movingToward ==
             \/ (e.Direction = DirUp /\ r.Floor >= e.CurrentFloor)
             \/ (e.Direction = DirDown /\ r.Floor <= e.CurrentFloor)
       IN IF movingToward
          THEN LET sameDir == r.Type = CabCall \/ r.Direction = e.Direction
               IN IF sameDir
                  THEN 2 * distance + pending
                  ELSE LET span == d.MaxFloor - d.MinFloor
                       IN 2 * distance + span + pending
          ELSE LET detour ==
                     IF e.Direction = DirUp
                     THEN (d.MaxFloor - e.CurrentFloor) + (d.MaxFloor - r.Floor)
                     ELSE (e.CurrentFloor - d.MinFloor) + (r.Floor - d.MinFloor)
               IN 2 * detour + pending

\* Mutant: the comparison is not strict, so the last of the cheapest cars
\* wins.
RECURSIVE Dispatcher_bestLoop_LastWins(_, _, _, _, _)
Dispatcher_bestLoop_LastWins(d, r, k, best, bestCost) ==
  IF k > Len(d.Elevators) THEN best
  ELSE LET cost == Dispatcher_cost(d, d.Elevators[k], r)
       IN IF cost <= bestCost
          THEN Dispatcher_bestLoop_LastWins(d, r, k + 1, k, cost)
          ELSE Dispatcher_bestLoop_LastWins(d, r, k + 1, best, bestCost)

\* The loop of Dispatch from car k on; yields the index of best (0: nil).
RECURSIVE Dispatcher_bestLoop(_, _, _, _, _)
Dispatcher_bestLoop(d, r, k, best, bestCost) ==
  IF k > Len(d.Elevators) THEN best
  ELSE LET cost == Dispatcher_cost(d, d.Elevators[k], r)
       IN IF cost < bestCost
          THEN Dispatcher_bestLoop(d, r, k + 1, k, cost)
          ELSE Dispatcher_bestLoop(d, r, k + 1, best, bestCost)

\* Mutant: the request is added to every car, not to the best one alone.
Dispatcher_Dispatch_Broadcast(d, r) ==
  IF Len(d.Elevators) = 0 THEN [d |-> d, ret |-> 0]
  ELSE LET best == Dispatcher_bestLoop(d, r, 1, 0, 2 * MaxFloat64)
       IN [d |-> [d EXCEPT !.Elevators =
                    [k \in DOMAIN d.Elevators |->
                       Elevator_AddRequest(d.Elevators[k], r)]],
           ret |-> best]

\* Mutant: the best car is returned without the request being added to it.
Dispatcher_Dispatch_NoAdd(d, r) ==
  IF Len(d.Elevators) = 0 THEN [d |-> d, ret |-> 0]
  ELSE [d |-> d, ret |-> Dispatcher_bestLoop(d, r, 1, 0, 2 * MaxFloat64)]

\* Dispatch: the dispatcher after the call and the ID of the returned car.
Dispatcher_Dispatch(d, r) ==
  IF Len(d.Elevators) = 0 THEN [d |-> d, ret |-> 0]
  ELSE LET best == Dispatcher_bestLoop(d, r, 1, 0, 2 * MaxFloat64)
       IN IF best # 0
          THEN [d |-> [d EXCEPT !.Elevators[best] =
                                   Elevator_AddRequest(d.Elevators[best], r)],
                ret |-> best]
          ELSE [d |-> d, ret |-> 0]

\* Mutant: the loop stops one car short of the end of the list.
Dispatcher_StepAll_SkipLast(d) ==
  [d EXCEPT !.Elevators =
     [k \in DOMAIN d.Elevators |->
        IF k < Len(d.Elevators) THEN Elevator_Step(d.Elevators[k])
        ELSE d.Elevators[k]]]

\* Mutant: the loop breaks at the first car that is Idle.
Dispatcher_StepAll_StopAtIdle(d) ==
  [d EXCEPT !.Elevators =
     [k \in DOMAIN d.Elevators |->
        IF \E j \in 1..k : d.Elevators[j].State = StateIdle
        THEN d.Elevators[k]
        ELSE Elevator_Step(d.Elevators[k])]]

Dispatcher_StepAll(d) ==
  [d EXCEPT !.Elevators =
     [k \in DOMAIN d.Elevators |-> Elevator_Step(d.Elevators[k])]]

\* The slice StepAll returns: msgs[i] = e.Step() for every car.
Dispatcher_StepAll_msgs(d) ==
  [k \in DOMAIN d.Elevators |-> Elevator_StepMsg(d.Elevators[k])]

\* The body of the loop of StepAll run over the cars in the given order.
RECURSIVE Dispatcher_stepInOrder(_, _)
Dispatcher_stepInOrder(d, order) ==
  IF order = <<>> THEN d
  ELSE Dispatcher_stepInOrder(
         [d EXCEPT !.Elevators[Head(order)] =
                     Elevator_Step(d.Elevators[Head(order)])],
         Tail(order))

Dispatcher_AllIdle(d) ==
  \A k \in DOMAIN d.Elevators :
     ~(d.Elevators[k].State # StateIdle
       \/ Elevator_HasPendingRequests(d.Elevators[k]))

(* ------------------------------------------------------------------ *)
(* State                                                              *)
(* ------------------------------------------------------------------ *)
VARIABLES
  impl,          \* which variant the caller drives: "bool", "bitmask",
                 \* "bitset", "pair" (bitmask and bitset side by
                 \* side), or "all" (the three side by side)
  boolElev,      \* the *Elevator
  bitmaskElev,   \* the *BitmaskElevator
  bitsetElev,    \* the *BitsetElevator
  last,          \* the last call made: its name, its request, the car before
  phase,         \* "free": any call; "load"/"run"/"done": the equivalence
                 \* test; "quiet": no AddRequest any more; "place"/"travel":
                 \* the car goes to its start floor; "fleet": the dispatcher
  nreq,          \* requests added so far by the equivalence test
  i,             \* loop counter of the run-until-idle drivers
  running,       \* per variant: its run-until-idle loop has not ended
  boolStops,     \* stops returned by runUntilIdle
  bitmaskStops,  \* stops returned by runBitmaskUntilIdle
  bitsetStops,   \* stops returned by runBitsetUntilIdle
  dispatcher,    \* the *Dispatcher
  chosen         \* ID of the car the last Dispatch returned; 0 for nil

cars == <<boolElev, bitmaskElev, bitsetElev>>
driver == <<nreq, i, running, boolStops, bitmaskStops, bitsetStops>>
fleet == <<dispatcher, chosen>>
vars == <<impl, boolElev, bitmaskElev, bitsetElev, last, phase, nreq, i,
          running, boolStops, bitmaskStops, bitsetStops, dispatcher, chosen>>

Impls == {"bool", "bitmask", "bitset"}

\* The zero Request, recorded for calls that take none.
NoRequest == [Floor |-> 0, Direction |-> DirIdle, Type |-> HallCall]

\* The car the caller drives.
Car ==
  CASE impl = "bool"    -> boolElev
    [] impl = "bitmask" -> bitmaskElev
    [] OTHER            -> bitsetElev

\* The public queries of the driven variant, on a car value c of it.
StopsSnapshot(c) ==
  CASE impl = "bool"    -> Elevator_StopsSnapshot(c)
    [] impl = "bitmask" -> Bitmask_StopsSnapshot(c)
    [] OTHER            -> Bitset_StopsSnapshot(c)

HasPendingRequests(c) ==
  CASE impl = "bool"    -> Elevator_HasPendingRequests(c)
    [] impl = "bitmask" -> Bitmask_HasPendingRequests(c)
    [] OTHER            -> Bitset_HasPendingRequests(c)

hasStopsAbove(c) ==
  CASE impl = "bool"    -> Elevator_hasStopsAbove(c)
    [] impl = "bitmask" -> Bitmask_hasStopsAbove(c)
    [] OTHER            -> Bitset_hasStopsAbove(c)

hasStopsBelow(c) ==
  CASE impl = "bool"    -> Elevator_hasStopsBelow(c)
    [] impl = "bitmask" -> Bitmask_hasStopsBelow(c)
    [] OTHER            -> Bitset_hasStopsBelow(c)

PendingCount(c) ==
  CASE impl = "bool"    -> Elevator_PendingCount(c)
    [] impl = "bitmask" -> Bitmask_PendingCount(c)
    [] OTHER            -> Bitset_PendingCount(c)

\* AddRequest(r) of the driven variant, on a car value c of it.
AddRequestTo(c, r) ==
  CASE impl = "bool"    -> Elevator_AddRequest(c, r)
    [] impl = "bitmask" -> Bitmask_AddRequest(c, r)
    [] OTHER            -> Bitset_AddRequest(c, r)

\* Floors marked in the up set or the down set of c.
Marked(c) == StopsSnapshot(c).up \cup StopsSnapshot(c).down

NewCars ==
  /\ boolElev = NewElevator
  /\ bitmaskElev = NewBitmaskElevator
  /\ bitsetElev = NewBitsetElevator

NewDriver ==
  /\ nreq = 0
  /\ i = 0
  /\ running = [k \in Impls |-> FALSE]
  /\ boolStops = <<>>
  /\ bitmaskStops = <<>>
  /\ bitsetStops = <<>>

\* No dispatcher is used: a single car is driven directly.
NoFleet ==
  /\ dispatcher = NewDispatcher(0)
  /\ chosen = 0

(* ------------------------------------------------------------------ *)
(* Spec: one car of any variant, any interleaving of AddRequest and   *)
(* Step                                                               *)
(* ------------------------------------------------------------------ *)
Init ==
  /\ impl \in Impls
  /\ NewCars
  /\ last = [op |-> "New", r |-> NoRequest, pre |-> Car]
  /\ phase = "free"
  /\ NewDriver
  /\ NoFleet

\* The range check of AddRequest lets r through.
InRange(r) == r.Floor >= MinFloor /\ r.Floor <= MaxFloor

\* e.AddRequest(r) on the driven car.
CallAddRequest(r) ==
  /\ boolElev' = IF impl \in {"bool", "all"}
                 THEN Elevator_AddRequest(boolElev, r) ELSE boolElev
  /\ bitmaskElev' = IF impl \in {"bitmask", "pair", "all"}
                    THEN Bitmask_AddRequest(bitmaskElev, r) ELSE bitmaskElev
  /\ bitsetElev' = IF impl \in {"bitset", "pair", "all"}
                   THEN Bitset_AddRequest(bitsetElev, r) ELSE bitsetElev

\* e.Step() on the driven car.
CallStep ==
  /\ boolElev' = IF impl \in {"bool", "all"}
                 THEN Elevator_Step(boolElev) ELSE boolElev
  /\ bitmaskElev' = IF impl \in {"bitmask", "pair", "all"}
                    THEN Bitmask_Step(bitmaskElev) ELSE bitmaskElev
  /\ bitsetElev' = IF impl \in {"bitset", "pair", "all"}
                   THEN Bitset_Step(bitsetElev) ELSE bitsetElev

AddRequest(r) ==
  /\ phase = "free"
  /\ CallAddRequest(r)
  /\ last' = [op |-> "AddRequest", r |-> r, pre |-> Car]
  /\ UNCHANGED <<impl, phase, driver>>
  /\ UNCHANGED fleet

Step ==
  /\ phase = "free"
  /\ CallStep
  /\ last' = [op |-> "Step", r |-> NoRequest, pre |-> Car]
  /\ UNCHANGED <<impl, phase, driver>>
  /\ UNCHANGED fleet

Next == (\E r \in Request : AddRequest(r)) \/ Step

Spec == Init /\ [][Next]_vars

(* ------------------------------------------------------------------ *)
(* SpecPair: a bitmask car and a bitset car, both given the same      *)
(* calls, under any interleaving of AddRequest and Step.              *)
(* ------------------------------------------------------------------ *)
InitPair ==
  /\ impl = "pair"
  /\ NewCars
  /\ last = [op |-> "New", r |-> NoRequest, pre |-> Car]
  /\ phase = "free"
  /\ NewDriver
  /\ NoFleet

SpecPair == InitPair /\ [][Next]_vars

(* ------------------------------------------------------------------ *)
(* SpecRun: TestBitsetElevator_MatchesOtherImpls on any request list. *)
(* The same in-range requests go to a car of each variant; then each  *)
(* car is run until idle by its driver and the stops are compared.    *)
(* ------------------------------------------------------------------ *)
InitRun ==
  /\ impl = "all"
  /\ NewCars
  /\ last = [op |-> "New", r |-> NoRequest, pre |-> NewElevator]
  /\ phase = "load"
  /\ NewDriver
  /\ NoFleet

\* for _, r := range requests { boolElev.AddRequest(r); ... }
LoadRequest(r) ==
  /\ phase = "load"
  /\ nreq < MaxRequests
  /\ r.Floor >= MinFloor /\ r.Floor <= MaxFloor
  /\ CallAddRequest(r)
  /\ nreq' = nreq + 1
  /\ UNCHANGED <<impl, last, phase, i, running, boolStops, bitmaskStops,
                 bitsetStops>>
  /\ UNCHANGED fleet

\* The three drivers are entered.
StartRun ==
  /\ phase = "load"
  /\ phase' = "run"
  /\ i' = 0
  /\ running' = [k \in Impls |-> TRUE]
  /\ UNCHANGED <<impl, cars, last, nreq, boolStops, bitmaskStops, bitsetStops>>
  /\ UNCHANGED fleet

\* One pass of the loop body in every driver that has not returned.
RunStep ==
  /\ phase = "run"
  /\ \E k \in Impls : running[k]
  /\ LET b == Elevator_Step(boolElev)
         m == Bitmask_Step(bitmaskElev)
         s == Bitset_Step(bitsetElev)
     IN /\ boolElev' = IF running["bool"] THEN b ELSE boolElev
        /\ bitmaskElev' = IF running["bitmask"] THEN m ELSE bitmaskElev
        /\ bitsetElev' = IF running["bitset"] THEN s ELSE bitsetElev
        /\ boolStops' = IF running["bool"]
                        THEN runUntilIdle_stops(b, boolStops) ELSE boolStops
        /\ bitmaskStops' = IF running["bitmask"]
                           THEN runUntilIdle_stops(m, bitmaskStops)
                           ELSE bitmaskStops
        /\ bitsetStops' = IF running["bitset"]
                          THEN runUntilIdle_stops(s, bitsetStops)
                          ELSE bitsetStops
        /\ running' =
             [k \in Impls |->
                running[k] /\
                runUntilIdle_continue(
                  CASE k = "bool" ->
                         b.State = StateIdle /\ ~Elevator_HasPendingRequests(b)
                    [] k = "bitmask" ->
                         m.State = StateIdle /\ ~Bitmask_HasPendingRequests(m)
                    [] OTHER ->
                         s.State = StateIdle /\ ~Bitset_HasPendingRequests(s),
                  i + 1)]
  /\ i' = i + 1
  /\ UNCHANGED <<impl, last, phase, nreq>>
  /\ UNCHANGED fleet

\* All three drivers have returned: the stops are compared.
EndRun ==
  /\ phase = "run"
  /\ \A k \in Impls : ~running[k]
  /\ phase' = "done"
  /\ UNCHANGED <<impl, cars, last, driver>>
  /\ UNCHANGED fleet

NextRun ==
  \/ \E r \in Request : LoadRequest(r)
  \/ StartRun
  \/ RunStep
  \/ EndRun

SpecRun == InitRun /\ [][NextRun]_vars

(* ------------------------------------------------------------------ *)
(* SpecLook: the LOOK ordering tests on any start floor and any list  *)
(* of requests on one side of the car.  A car of each variant is      *)
(* brought to the start floor by a cab call, receives the requests    *)
(* while idle there, and is then run until idle by its driver.        *)
(* ------------------------------------------------------------------ *)
AllIdleAndEmpty ==
  /\ boolElev.State = StateIdle /\ ~Elevator_HasPendingRequests(boolElev)
  /\ bitmaskElev.State = StateIdle /\ ~Bitmask_HasPendingRequests(bitmaskElev)
  /\ bitsetElev.State = StateIdle /\ ~Bitset_HasPendingRequests(bitsetElev)

InitLook ==
  /\ impl = "all"
  /\ NewCars
  /\ last = [op |-> "New", r |-> NoRequest, pre |-> NewElevator]
  /\ phase = "place"
  /\ NewDriver
  /\ NoFleet

\* A cab call sends the three cars to the start floor f.
LookPlace(f) ==
  /\ phase = "place"
  /\ f \in Floors
  /\ CallAddRequest([Floor |-> f, Direction |-> DirIdle, Type |-> CabCall])
  /\ phase' = "travel"
  /\ UNCHANGED <<impl, last, driver, fleet>>

LookTravel ==
  /\ phase = "travel"
  /\ ~AllIdleAndEmpty
  /\ CallStep
  /\ UNCHANGED <<impl, last, phase, driver, fleet>>

\* The cars stand idle at the start floor: the requests may begin.
LookArrive ==
  /\ phase = "travel"
  /\ AllIdleAndEmpty
  /\ phase' = "load"
  /\ last' = [op |-> "Look", r |-> NoRequest,
              pre |-> [start |-> boolElev.CurrentFloor, side |-> DirIdle,
                       floors |-> {}]]
  /\ UNCHANGED <<impl, cars, driver, fleet>>

\* Request r belongs to the family on side dir of a car at floor cur: cab
\* calls and hall calls going dir, at floors strictly beyond cur.
OnSide(r, dir, cur) ==
  /\ InRange(r)
  /\ r.Type = CabCall \/ r.Direction = dir
  /\ IF dir = DirUp THEN r.Floor > cur ELSE r.Floor < cur

LookAdd(r) ==
  /\ phase = "load"
  /\ last.op = "Look"
  /\ nreq < MaxRequests
  /\ \E dir \in {DirUp, DirDown} :
       /\ last.pre.side \in {DirIdle, dir}
       /\ OnSide(r, dir, last.pre.start)
       /\ last' = [last EXCEPT !.pre.side = dir,
                               !.pre.floors = @ \cup {r.Floor}]
  /\ CallAddRequest(r)
  /\ nreq' = nreq + 1
  /\ UNCHANGED <<impl, phase, i, running, boolStops, bitmaskStops,
                 bitsetStops, fleet>>

NextLook ==
  \/ \E f \in Floors : LookPlace(f)
  \/ LookTravel
  \/ LookArrive
  \/ \E r \in Request : LookAdd(r)
  \/ StartRun
  \/ RunStep
  \/ EndRun

SpecLook == InitLook /\ [][NextLook]_vars

\* d.Elevators[k-1].CurrentFloor = start[k] for every car, as the
\* dispatcher tests place the idle cars of a new dispatcher.
PlaceCars(d, start) ==
  [d EXCEPT !.Elevators =
     [k \in DOMAIN d.Elevators |->
        [d.Elevators[k] EXCEPT !.CurrentFloor = start[k]]]]

(* ------------------------------------------------------------------ *)
(* SpecFleet: a dispatcher with up to NumCars cars, placed            *)
(* idle at any floors, driven by any interleaving of Dispatch,        *)
(* StepAll and cab calls given to one of its cars directly (as the    *)
(* dispatcher tests do), with at most MaxRequests requests in all.    *)
(* ------------------------------------------------------------------ *)
InitFleet ==
  /\ impl = "bool"
  /\ NewCars
  /\ phase = "fleet"
  /\ NewDriver
  /\ \E n \in 0..NumCars : \E start \in [1..n -> Floors] :
       dispatcher = PlaceCars(NewDispatcher(n), start)
  /\ chosen = 0
  /\ last = [op |-> "New", r |-> NoRequest, pre |-> NewDispatcher(0)]

\* chosen := d.Dispatch(r)
Dispatch(r) ==
  /\ phase = "fleet"
  /\ nreq < MaxRequests
  /\ LET res == Dispatcher_Dispatch(dispatcher, r)
     IN /\ dispatcher' = res.d
        /\ chosen' = res.ret
  /\ last' = [op |-> "Dispatch", r |-> r, pre |-> dispatcher]
  /\ nreq' = nreq + 1
  /\ UNCHANGED <<impl, cars, phase, i, running, boolStops, bitmaskStops,
                 bitsetStops>>

\* d.Elevators[k-1].AddRequest(r) with a cab call, which leaves room for
\* one Dispatch within MaxRequests.
FleetAddRequest(k, r) ==
  /\ phase = "fleet"
  /\ nreq + 1 < MaxRequests
  /\ k \in DOMAIN dispatcher.Elevators
  /\ r.Type = CabCall
  /\ InRange(r)
  /\ dispatcher' = [dispatcher EXCEPT !.Elevators[k] =
                      Elevator_AddRequest(dispatcher.Elevators[k], r)]
  /\ last' = [op |-> "AddRequest", r |-> NoRequest, pre |-> NewDispatcher(0)]
  /\ nreq' = nreq + 1
  /\ UNCHANGED <<impl, cars, phase, i, running, boolStops, bitmaskStops,
                 bitsetStops, chosen>>

\* d.StepAll(), while a request is still to come: the exploration ends
\* with the last of the MaxRequests requests.
StepAll ==
  /\ phase = "fleet"
  /\ nreq < MaxRequests
  /\ dispatcher' = Dispatcher_StepAll(dispatcher)
  /\ last' = [op |-> "StepAll", r |-> NoRequest, pre |-> NewDispatcher(0)]
  /\ UNCHANGED <<impl, cars, phase, driver, chosen>>

NextFleet ==
  \/ \E r \in Request : Dispatch(r)
  \/ \E k \in 1..NumCars, r \in Request : FleetAddRequest(k, r)
  \/ StepAll

SpecFleet == InitFleet /\ [][NextFleet]_vars

(* ------------------------------------------------------------------ *)
(* SpecCalls: the same dispatcher driven through its own methods      *)
(* only, by any interleaving of Dispatch and StepAll.                 *)
(* ------------------------------------------------------------------ *)
NextCalls ==
  \/ \E r \in Request : Dispatch(r)
  \/ StepAll

SpecCalls == InitFleet /\ [][NextCalls]_vars

(* ------------------------------------------------------------------ *)
(* LiveFleet: the simulation loop of the demo. At most MaxRequests    *)
(* requests are dispatched, with StepAll calls in between; then the   *)
(* caller dispatches nothing more and keeps calling StepAll.          *)
(* ------------------------------------------------------------------ *)
\* d.Dispatch(r); the car it returns is only printed.
LiveDispatch(r) ==
  /\ phase = "fleet"
  /\ nreq < MaxRequests
  /\ dispatcher' = Dispatcher_Dispatch(dispatcher, r).d
  /\ nreq' = nreq + 1
  /\ UNCHANGED <<impl, cars, phase, i, running, boolStops, bitmaskStops,
                 bitsetStops, chosen, last>>

\* The caller dispatches no request from here on.
FleetQuiesce ==
  /\ phase = "fleet"
  /\ phase' = "drain"
  /\ last' = [op |-> "Quiesce", r |-> NoRequest, pre |-> NewDispatcher(0)]
  /\ UNCHANGED <<impl, cars, driver, fleet>>

\* d.StepAll(); once the caller has stopped dispatching, the value of
\* AllIdle() before the call is recorded.
LiveStepAll ==
  /\ phase \in {"fleet", "drain"}
  /\ dispatcher' = Dispatcher_StepAll(dispatcher)
  /\ last' = IF phase = "drain"
             THEN [op |-> "StepAll", r |-> NoRequest,
                   pre |-> NewDispatcher(0),
                   idle |-> Dispatcher_AllIdle(dispatcher)]
             ELSE last
  /\ UNCHANGED <<impl, cars, phase, driver, chosen>>

NextLiveFleet ==
  \/ \E r \in Request : LiveDispatch(r)
  \/ FleetQuiesce
  \/ LiveStepAll

LiveFleet == InitFleet /\ [][NextLiveFleet]_vars /\ WF_vars(LiveStepAll)

(* ------------------------------------------------------------------ *)
(* SpecTick: Dispatch and StepAll calls in any order, each StepAll    *)
(* recorded with the dispatcher before the call and the slice it      *)
(* returned.                                                          *)
(* ------------------------------------------------------------------ *)
\* chosen := d.Dispatch(r)
TickDispatch(r) ==
  /\ phase = "fleet"
  /\ nreq < MaxRequests
  /\ LET res == Dispatcher_Dispatch(dispatcher, r)
     IN /\ dispatcher' = res.d
        /\ chosen' = res.ret
  /\ last' = [op |-> "Dispatch", r |-> NoRequest, pre |-> NewDispatcher(0)]
  /\ nreq' = nreq + 1
  /\ UNCHANGED <<impl, cars, phase, i, running, boolStops, bitmaskStops,
                 bitsetStops>>

\* msgs := d.StepAll()
TickStepAll ==
  /\ phase = "fleet"
  /\ dispatcher' = Dispatcher_StepAll(dispatcher)
  /\ last' = [op |-> "StepAll", r |-> NoRequest, pre |-> dispatcher,
              msgs |-> Dispatcher_StepAll_msgs(dispatcher)]
  /\ UNCHANGED <<impl, cars, phase, driver, chosen>>

NextTick ==
  \/ \E r \in Request : TickDispatch(r)
  \/ TickStepAll

SpecTick == InitFleet /\ [][NextTick]_vars

(* ------------------------------------------------------------------ *)
(* SpecNew: NewBitmaskElevator called with any pair of int arguments. *)
(* A Go int has 64 bits and its arithmetic wraps. The values that     *)
(* matter lie near 0 and near the two ends of the int range, so an    *)
(* int is written [hi, lo] for hi * 2^63 + lo with a small lo:        *)
(* hi = 0 near zero, hi = -1 (lo >= 0) near the least int, hi = 1     *)
(* (lo < 0) near the greatest int.                                    *)
(* ------------------------------------------------------------------ *)
Int64(n) == [hi |-> 0, lo |-> n]
MinInt64 == [hi |-> -1, lo |-> 0]
MaxInt64 == [hi |-> 1, lo |-> -1]

\* The int that the exact value hi * 2^63 + lo wraps to (modulo 2^64).
WrapInt64(x) ==
  IF x.hi % 2 = 0 THEN [hi |-> 0, lo |-> x.lo]
  ELSE IF x.lo >= 0 THEN [hi |-> -1, lo |-> x.lo]
  ELSE [hi |-> 1, lo |-> x.lo]

\* Exact difference and sum, and the int operators - and + of Go.
Exact_minus(x, y) == [hi |-> x.hi - y.hi, lo |-> x.lo - y.lo]
Exact_plus(x, y) == [hi |-> x.hi + y.hi, lo |-> x.lo + y.lo]
Int64_minus(x, y) == WrapInt64(Exact_minus(x, y))
Int64_plus(x, y) == WrapInt64(Exact_plus(x, y))

\* x > n for a value x (wrapped or exact) and a small n.
GreaterThan(x, n) == x.hi > 0 \/ (x.hi = 0 /\ x.lo > n)

\* The arguments tried: floors around 0 and around the width of the mask,
\* and the ends of the int range.
FloorArgs ==
  {Int64(n) : n \in {-1, 0, 1}}
  \cup {Int64(n) : n \in (bitmaskMaxFloors - 2)..(bitmaskMaxFloors + 1)}
  \cup {MinInt64, Int64_plus(MinInt64, Int64(1)),
        Int64_minus(MaxInt64, Int64(1)), MaxInt64}

\* NewBitmaskElevator(id, minFloor, maxFloor): whether it panics, and the
\* car it returns otherwise.
NewBitmaskElevator_int(minFloor, maxFloor) ==
  IF GreaterThan(Int64_plus(Int64_minus(maxFloor, minFloor), Int64(1)),
                 bitmaskMaxFloors)
  THEN [panic |-> TRUE]
  ELSE [panic |-> FALSE,
        e |-> [CurrentFloor |-> minFloor, State |-> StateIdle,
               Direction |-> DirIdle, MinFloor |-> minFloor,
               MaxFloor |-> maxFloor, upStops |-> {}, downStops |-> {},
               doorTimer |-> 0]]

InitNew ==
  /\ impl = "bitmask"
  /\ NewCars
  /\ \E minFloor, maxFloor \in FloorArgs :
       last = [op |-> "args", r |-> NoRequest,
               pre |-> [minFloor |-> minFloor, maxFloor |-> maxFloor]]
  /\ phase = "new"
  /\ NewDriver
  /\ NoFleet

\* e := NewBitmaskElevator(1, minFloor, maxFloor)
Construct ==
  /\ phase = "new"
  /\ phase' = "built"
  /\ last' = [op |-> "NewBitmaskElevator", r |-> NoRequest, pre |-> last.pre,
              res |-> NewBitmaskElevator_int(last.pre.minFloor,
                                             last.pre.maxFloor)]
  /\ UNCHANGED <<impl, cars, driver, fleet>>

NextNew == Construct

SpecNew == InitNew /\ [][NextNew]_vars

(* ------------------------------------------------------------------ *)
(* LiveSpec: one car of any variant whose caller keeps calling Step   *)
(* (the loops of runUntilIdle and of the demo), with AddRequest       *)
(* calls in between until the caller stops issuing them.              *)
(* ------------------------------------------------------------------ *)
LiveAddRequest(r) ==
  /\ phase = "free"
  /\ CallAddRequest(r)
  /\ UNCHANGED <<impl, last, phase, driver>>
  /\ UNCHANGED fleet

\* The caller issues no AddRequest from here on; the stops pending at this
\* moment are recorded.
Quiesce ==
  /\ phase = "free"
  /\ phase' = "quiet"
  /\ last' = [op |-> "Quiesce", r |-> NoRequest, pre |-> StopsSnapshot(Car)]
  /\ UNCHANGED <<impl, cars, driver>>
  /\ UNCHANGED fleet

LiveStep ==
  /\ phase \in {"free", "quiet"}
  /\ CallStep
  /\ UNCHANGED <<impl, last, phase, driver>>
  /\ UNCHANGED fleet

LiveNext ==
  \/ \E r \in Request : LiveAddRequest(r)
  \/ Quiesce
  \/ LiveStep

LiveSpec == Init /\ [][LiveNext]_vars /\ WF_vars(LiveStep)

(* ------------------------------------------------------------------ *)
(* Properties of one car under any interleaving (Spec)                *)
(* ------------------------------------------------------------------ *)
OutOfRange(r) == r.Floor < MinFloor \/ r.Floor > MaxFloor

\* C2: in every state reachable by AddRequest and Step, for each variant,
\* MinFloor <= CurrentFloor <= MaxFloor.
C2_FloorInRange ==
  MinFloor <= Car.CurrentFloor /\ Car.CurrentFloor <= MaxFloor

\* A moving car has just stepped onto the top floor.
C2_Witness ==
  /\ last.op = "Step"
  /\ last.pre.State = StateMovingUp
  /\ last.pre.CurrentFloor = MaxFloor - 1
  /\ Car.CurrentFloor = MaxFloor

\* C3: after every AddRequest or Step, HasPendingRequests() is true exactly
\* when some floor is marked in the up set or the down set.
C3_PendingIffMarked ==
  HasPendingRequests(Car) <=> (Marked(Car) # {})

\* The flag-array car took a cab call for its own floor while moving: the
\* cached bound moved to a floor that carries no mark.
C3_Witness ==
  /\ impl = "bool"
  /\ last.op = "AddRequest"
  /\ last.r.Type = CabCall
  /\ last.r.Floor = last.pre.CurrentFloor
  /\ last.pre.State = StateMovingUp
  /\ Car.minRequest = last.r.Floor
  /\ Car.minRequest \notin Marked(Car)
  /\ HasPendingRequests(Car)

\* C4: doorTimer > 0 if and only if State = DoorOpen; the timer is 1 or 2
\* while the door is open and 0 otherwise.
C4_TimerIffDoorOpen ==
  /\ (Car.doorTimer > 0) <=> (Car.State = StateDoorOpen)
  /\ Car.State = StateDoorOpen => Car.doorTimer \in {1, 2}
  /\ Car.State # StateDoorOpen => Car.doorTimer = 0

\* A Step has just closed the door: the timer went from 1 to 0.
C4_Witness ==
  /\ last.op = "Step"
  /\ last.pre.State = StateDoorOpen
  /\ last.pre.doorTimer = 1
  /\ Car.doorTimer = 0
  /\ Car.State # StateDoorOpen

\* C5: AddRequest with a floor below MinFloor or above MaxFloor changes
\* nothing in the car (floor, state, direction, timer, stop sets, cached
\* bounds), in any state and for each variant; HasPendingRequests() keeps
\* its value.
C5_OutOfRangeIgnored ==
  (last.op = "AddRequest" /\ OutOfRange(last.r)) =>
     /\ Car = last.pre
     /\ HasPendingRequests(Car) = HasPendingRequests(last.pre)

\* A moving car with a stop pending was offered the floor above the top.
C5_Witness ==
  /\ last.op = "AddRequest"
  /\ last.r.Floor = MaxFloor + 1
  /\ last.pre.State = StateMovingUp
  /\ Marked(last.pre) # {}
  /\ Car = last.pre

\* C6: whenever a Step changes Direction from Up to Down, no floor strictly
\* above CurrentFloor is marked in either stop set at that moment; whenever
\* it changes it from Down to Up, no floor strictly below is marked.
C6_NoReverseWhileAhead ==
  /\ (last.op = "Step" /\ last.pre.Direction = DirUp /\ Car.Direction = DirDown)
       => /\ \A f \in Marked(last.pre) : f <= last.pre.CurrentFloor
          /\ \A f \in Marked(Car) : f <= Car.CurrentFloor
  /\ (last.op = "Step" /\ last.pre.Direction = DirDown /\ Car.Direction = DirUp)
       => /\ \A f \in Marked(last.pre) : f >= last.pre.CurrentFloor
          /\ \A f \in Marked(Car) : f >= Car.CurrentFloor

\* A Step has reversed a car from Up to Down below the top floor.
C6_Witness ==
  /\ last.op = "Step"
  /\ last.pre.Direction = DirUp
  /\ Car.Direction = DirDown
  /\ Car.CurrentFloor < MaxFloor
  /\ \E f \in Marked(Car) : f < Car.CurrentFloor

\* C7: State = Idle implies that no floor is marked in the up set or the
\* down set, the car's current floor included.
C7_IdleImpliesNoStops ==
  Car.State = StateIdle => Marked(Car) = {}

\* A Step has closed the door away from the start floor and the car went idle.
C7_Witness ==
  /\ last.op = "Step"
  /\ last.pre.State = StateDoorOpen
  /\ Car.State = StateIdle
  /\ Car.CurrentFloor # MinFloor

\* C10: for a car that is Idle with no pending requests, a Step leaves State,
\* Direction, CurrentFloor, doorTimer and both stop sets unchanged (and so
\* does every further Step).
C10_IdleStepIsNoOp ==
  (last.op = "Step" /\ last.pre.State = StateIdle /\ Marked(last.pre) = {}) =>
     /\ Car = last.pre
     /\ Car.State = StateIdle
     /\ Car.Direction = DirIdle

\* An idle car that has travelled to the top floor was stepped again.
C10_Witness ==
  /\ last.op = "Step"
  /\ last.pre.State = StateIdle
  /\ Marked(last.pre) = {}
  /\ last.pre.CurrentFloor = MaxFloor
  /\ Car = last.pre

(* ------------------------------------------------------------------ *)
(* Equivalence of the variants (SpecRun)                              *)
(* ------------------------------------------------------------------ *)
\* C1: for any sequence of in-range requests added to a car of each of the
\* three variants, which are then stepped until idle, the three drivers
\* return the same ordered sequence of stop floors.
C1_SameStops ==
  phase = "done" =>
     /\ boolStops = bitsetStops
     /\ bitmaskStops = bitsetStops

(* ------------------------------------------------------------------ *)
(* Progress (LiveSpec)                                                *)
(* ------------------------------------------------------------------ *)
IdleAndEmpty ==
  /\ Car.State = StateIdle
  /\ Marked(Car) = {}
  /\ ~HasPendingRequests(Car)

DoorOpenAt(f) == Car.State = StateDoorOpen /\ Car.CurrentFloor = f

\* C8: once no further AddRequest is issued, repeated Step calls open the
\* door at every floor that is marked in either stop set, and the car
\* reaches State Idle with both stop sets empty and HasPendingRequests()
\* false.
C8_QuietRunDrains ==
  /\ \A f \in Floors :
       (phase = "quiet" /\ f \in Marked(Car)) ~> (phase = "quiet" /\ DoorOpenAt(f))
  /\ (phase = "quiet") ~> (phase = "quiet" /\ IdleAndEmpty)

\* A car that had stops at two floors or more, in both stop sets, when the
\* requests ended is idle and empty.
C8_Witness ==
  /\ phase = "quiet"
  /\ last.op = "Quiesce"
  /\ last.pre.up # {}
  /\ last.pre.down # {}
  /\ Cardinality(last.pre.up \cup last.pre.down) >= 2
  /\ IdleAndEmpty

\* C9: a floor marked in a stop set is eventually served (the door opens at
\* that floor and its mark is cleared) when Step keeps being called, even
\* while further in-range requests keep arriving between the steps.
C9_NoStarvation ==
  \A f \in Floors :
    /\ (f \in StopsSnapshot(Car).up)
         ~> (DoorOpenAt(f) /\ f \notin StopsSnapshot(Car).up)
    /\ (f \in StopsSnapshot(Car).down)
         ~> (DoorOpenAt(f) /\ f \notin StopsSnapshot(Car).down)

\* C9 as amended: a floor marked in a stop set is eventually served while
\* Step keeps being called and requests keep arriving, unless the door
\* stays open for ever (every request for the floor at which the car stands
\* with its door open resets the door timer).
C9_NoStarvationUnlessDoorHeld ==
  ([]<>(Car.State # StateDoorOpen)) => C9_NoStarvation

\* With requests still allowed and stops pending elsewhere, a car that went
\* up has come back down and opened its door at the bottom floor.
C9_Witness ==
  /\ phase = "free"
  /\ Car.Direction = DirDown
  /\ DoorOpenAt(MinFloor)
  /\ Car.doorTimer = doorOpenSteps
  /\ MinFloor \notin Marked(Car)
  /\ Marked(Car) # {}

(* ------------------------------------------------------------------ *)
(* AddRequest contracts (Spec)                                        *)
(* ------------------------------------------------------------------ *)
\* The door re-open rule of AddRequest applies to request r on car e.
ReopenRule(e, r) ==
  /\ r.Floor = e.CurrentFloor
  /\ e.State \in {StateIdle, StateDoorOpen}

\* C11: every request whose floor lies within [MinFloor, MaxFloor] has an
\* effect: after AddRequest the request floor is marked in a stop set or
\* the car is DoorOpen at that floor; no in-range request is dropped.
C11_InRangeHasEffect ==
  (last.op = "AddRequest" /\ InRange(last.r)) =>
     \/ last.r.Floor \in Marked(Car)
     \/ DoorOpenAt(last.r.Floor)

\* C12: AddRequest for the car's current floor while State is Idle or
\* DoorOpen puts the car in DoorOpen with doorTimer reset to 2, leaves
\* CurrentFloor and Direction unchanged, and marks no floor in either set.
C12_ReopenAtCurrentFloor ==
  (last.op = "AddRequest" /\ ReopenRule(last.pre, last.r)) =>
     /\ Car.State = StateDoorOpen
     /\ Car.doorTimer = 2
     /\ Car.CurrentFloor = last.pre.CurrentFloor
     /\ Car.Direction = last.pre.Direction
     /\ StopsSnapshot(Car).up \subseteq StopsSnapshot(last.pre).up
     /\ StopsSnapshot(Car).down \subseteq StopsSnapshot(last.pre).down

\* A car whose door was about to close, with its direction kept and stops
\* pending elsewhere, got a request for its own floor: the timer is 2 again.
C12_Witness ==
  /\ last.op = "AddRequest"
  /\ ReopenRule(last.pre, last.r)
  /\ last.pre.State = StateDoorOpen
  /\ last.pre.doorTimer = 1
  /\ last.pre.Direction = DirUp
  /\ Marked(last.pre) # {}
  /\ Car.doorTimer = 2

\* C13: an in-range request that is not handled by the door re-open rule
\* marks exactly the request floor in exactly one stop set and changes no
\* other mark: a hall call goes into the up set when its direction is Up
\* and otherwise into the down set; a cab call goes into the up set when
\* its floor is above CurrentFloor and into the down set when below.
C13_Classification ==
  (last.op = "AddRequest" /\ InRange(last.r) /\ ~ReopenRule(last.pre, last.r)) =>
     LET f == last.r.Floor
         pre == StopsSnapshot(last.pre)
         post == StopsSnapshot(Car)
         tgt == IF last.r.Type = HallCall
                THEN (IF last.r.Direction = DirUp THEN "up" ELSE "down")
                ELSE IF f > last.pre.CurrentFloor THEN "up"
                ELSE IF f < last.pre.CurrentFloor THEN "down"
                ELSE "none"
     IN /\ tgt # "none"
        /\ post.up = (IF tgt = "up" THEN pre.up \cup {f} ELSE pre.up)
        /\ post.down = (IF tgt = "down" THEN pre.down \cup {f} ELSE pre.down)

\* C14: when the car is Idle and AddRequest receives an in-range request
\* for a floor other than CurrentFloor, the car gets Direction Up and State
\* MovingUp if the floor is above, Direction Down and State MovingDown if
\* below, whatever the request kind or hall-call direction; CurrentFloor
\* does not change in that call.
C14_IdleAdoptsDirection ==
  (/\ last.op = "AddRequest"
   /\ InRange(last.r)
   /\ last.pre.State = StateIdle
   /\ last.r.Floor # last.pre.CurrentFloor) =>
     /\ Car.CurrentFloor = last.pre.CurrentFloor
     /\ IF last.r.Floor > last.pre.CurrentFloor
        THEN Car.Direction = DirUp /\ Car.State = StateMovingUp
        ELSE Car.Direction = DirDown /\ Car.State = StateMovingDown

\* An idle car standing above the bottom floor got a hall call going Up at
\* a floor below it and set off downwards.
C14_Witness ==
  /\ last.op = "AddRequest"
  /\ last.pre.State = StateIdle
  /\ last.r.Type = HallCall
  /\ last.r.Direction = DirUp
  /\ last.r.Floor < last.pre.CurrentFloor
  /\ Car.State = StateMovingDown
  /\ Car.Direction = DirDown

(* ------------------------------------------------------------------ *)
(* LOOK ordering (SpecLook)                                           *)
(* ------------------------------------------------------------------ *)
SetMin(S) == CHOOSE x \in S : \A y \in S : x <= y

SetMax(S) == CHOOSE x \in S : \A y \in S : x >= y

RECURSIVE Ascending(_)
Ascending(S) ==
  IF S = {} THEN <<>> ELSE <<SetMin(S)>> \o Ascending(S \ {SetMin(S)})

RECURSIVE Descending(_)
Descending(S) ==
  IF S = {} THEN <<>> ELSE <<SetMax(S)>> \o Descending(S \ {SetMax(S)})

\* C15: for an idle car, any set of cab calls and Up hall calls whose floors
\* are all strictly above CurrentFloor, added in any order before the first
\* Step, is served in strictly ascending floor order, each floor exactly
\* once, and the car ends Idle at the highest of them; symmetrically, cab
\* calls and Down hall calls all below are served in descending order and
\* the car ends Idle at the lowest.
C15_LookOrder ==
  (phase = "done" /\ last.op = "Look" /\ last.pre.floors # {}) =>
     LET expected == IF last.pre.side = DirUp
                     THEN Ascending(last.pre.floors)
                     ELSE Descending(last.pre.floors)
         final == IF last.pre.side = DirUp
                  THEN SetMax(last.pre.floors)
                  ELSE SetMin(last.pre.floors)
     IN /\ boolStops = expected
        /\ bitmaskStops = expected
        /\ bitsetStops = expected
        /\ AllIdleAndEmpty
        /\ boolElev.CurrentFloor = final
        /\ bitmaskElev.CurrentFloor = final
        /\ bitsetElev.CurrentFloor = final

\* Two floors or more above the start floor were requested and the run has
\* ended with the lower one served first.
C15_Witness ==
  /\ phase = "done"
  /\ last.op = "Look"
  /\ last.pre.side = DirUp
  /\ Cardinality(last.pre.floors) >= 2
  /\ Len(boolStops) >= 2
  /\ boolStops[1] < boolStops[2]

(* ------------------------------------------------------------------ *)
(* The dispatcher (SpecFleet).  After a Dispatch, last.pre is the     *)
(* dispatcher before the call, last.r the request and chosen the ID   *)
(* of the returned car.  Costs are compared as twice their value.     *)
(* ------------------------------------------------------------------ *)
PreCar(k) == last.pre.Elevators[k]

PreCost(k) == Dispatcher_cost(last.pre, PreCar(k), last.r)

PreCars == DOMAIN last.pre.Elevators

Distance(k) == abs(PreCar(k).CurrentFloor - last.r.Floor)

\* C16: Dispatch selects a car of minimum cost for the request, and among
\* cars of equal minimum cost the one with the lowest index; the returned
\* car is the one, and the only one, on which AddRequest was applied.
\* Dispatch returns no car only when the dispatcher has zero cars.
C16_MinCostLowestIndex ==
  last.op = "Dispatch" =>
     /\ (chosen = 0) <=> (PreCars = {})
     /\ chosen # 0 =>
          /\ chosen \in PreCars
          /\ \A k \in PreCars : PreCost(chosen) <= PreCost(k)
          /\ \A k \in PreCars : k < chosen => PreCost(k) > PreCost(chosen)
          /\ dispatcher.Elevators[chosen] =
               Elevator_AddRequest(PreCar(chosen), last.r)
          /\ \A k \in PreCars \ {chosen} : dispatcher.Elevators[k] = PreCar(k)

\* Two cars in different states, one of them under way, had the same cost
\* for an in-range request: the first one was returned and got the request.
C16_Witness ==
  /\ last.op = "Dispatch"
  /\ InRange(last.r)
  /\ PreCars = {1, 2}
  /\ PreCost(1) = PreCost(2)
  /\ PreCar(1).State = StateIdle
  /\ PreCar(2).State = StateMovingUp
  /\ chosen = 1
  /\ dispatcher.Elevators[1] # PreCar(1)

\* C17: with distance = |CurrentFloor - request floor|, pending =
\* PendingCount() and span = MaxFloor - MinFloor, the cost of a car is
\* distance + 0.5*pending when the car is idle; distance + 0.5*pending when
\* it is moving, the request floor is ahead and the request is a cab call or
\* a hall call in the car's direction; distance + span/2 + 0.5*pending when
\* the floor is ahead but the hall call's direction is not the car's; and
\* detour + 0.5*pending when the car moves away, with detour =
\* (MaxFloor - CurrentFloor) + (MaxFloor - request floor) going Up and
\* (CurrentFloor - MinFloor) + (request floor - MinFloor) going Down.
C17_CostFormula ==
  last.op = "Dispatch" =>
    \A k \in PreCars :
      LET e == PreCar(k)
          r == last.r
          pending == Cardinality(Elevator_StopsSnapshot(e).up)
                       + Cardinality(Elevator_StopsSnapshot(e).down)
          span == MaxFloor - MinFloor
          idle == e.State = StateIdle \/ e.Direction = DirIdle
          ahead == \/ e.Direction = DirUp /\ r.Floor >= e.CurrentFloor
                   \/ e.Direction = DirDown /\ r.Floor <= e.CurrentFloor
          aligned == r.Type = CabCall \/ r.Direction = e.Direction
      IN /\ idle => PreCost(k) = 2 * Distance(k) + pending
         /\ (~idle /\ ahead /\ aligned) =>
              PreCost(k) = 2 * Distance(k) + pending
         /\ (~idle /\ ahead /\ ~aligned) =>
              PreCost(k) = 2 * Distance(k) + span + pending
         /\ (~idle /\ ~ahead /\ e.Direction = DirUp) =>
              PreCost(k) = 2 * ((MaxFloor - e.CurrentFloor)
                                 + (MaxFloor - r.Floor)) + pending
         /\ (~idle /\ ~ahead /\ e.Direction = DirDown) =>
              PreCost(k) = 2 * ((e.CurrentFloor - MinFloor)
                                 + (r.Floor - MinFloor)) + pending

\* A request was dispatched while one car, with stops pending, was moving
\* away from its floor and the other had the floor ahead but got a hall
\* call against its direction.
C17_Witness ==
  /\ last.op = "Dispatch"
  /\ InRange(last.r)
  /\ last.r.Type = HallCall
  /\ \E k \in PreCars :
       /\ PreCar(k).State = StateMovingUp
       /\ last.r.Floor < PreCar(k).CurrentFloor
       /\ Elevator_PendingCount(PreCar(k)) > 0
  /\ \E k \in PreCars :
       /\ PreCar(k).State = StateMovingDown
       /\ last.r.Floor < PreCar(k).CurrentFloor
       /\ last.r.Direction = DirUp

\* C18: Dispatch mutates only the selected car: every non-selected car has
\* the same CurrentFloor, State, Direction, doorTimer and stop sets as
\* before, and the dispatcher's car list and floor bounds are unchanged.
C18_OnlySelectedCarChanges ==
  last.op = "Dispatch" =>
     /\ DOMAIN dispatcher.Elevators = PreCars
     /\ dispatcher.MinFloor = last.pre.MinFloor
     /\ dispatcher.MaxFloor = last.pre.MaxFloor
     /\ \A k \in PreCars :
          k # chosen =>
            /\ dispatcher.Elevators[k].CurrentFloor = PreCar(k).CurrentFloor
            /\ dispatcher.Elevators[k].State = PreCar(k).State
            /\ dispatcher.Elevators[k].Direction = PreCar(k).Direction
            /\ dispatcher.Elevators[k].doorTimer = PreCar(k).doorTimer
            /\ Elevator_StopsSnapshot(dispatcher.Elevators[k]) =
                 Elevator_StopsSnapshot(PreCar(k))
            /\ dispatcher.Elevators[k] = PreCar(k)

\* The second car was returned and changed, while the first one, idle at a
\* floor the request would have marked, stayed as it was.
C18_Witness ==
  /\ last.op = "Dispatch"
  /\ PreCars = {1, 2}
  /\ chosen = 2
  /\ dispatcher.Elevators[2] # PreCar(2)
  /\ PreCar(1).State = StateIdle
  /\ Elevator_AddRequest(PreCar(1), last.r) # PreCar(1)
  /\ dispatcher.Elevators[1] = PreCar(1)

\* C19: when every car is Idle with no pending stops, Dispatch of a hall
\* call selects a car whose distance |CurrentFloor - request floor| is
\* minimal over all cars, the lowest-indexed one among equally close cars.
C19_ClosestWins ==
  (/\ last.op = "Dispatch"
   /\ last.r.Type = HallCall
   /\ PreCars # {}
   /\ \A k \in PreCars :
        /\ PreCar(k).State = StateIdle
        /\ ~Elevator_HasPendingRequests(PreCar(k))) =>
     /\ chosen \in PreCars
     /\ \A k \in PreCars : Distance(chosen) <= Distance(k)
     /\ \A k \in PreCars : k < chosen => Distance(k) > Distance(chosen)

\* Of two idle cars at different floors the second one was nearer to the
\* hall call and was returned.
C19_Witness ==
  /\ last.op = "Dispatch"
  /\ last.r.Type = HallCall
  /\ InRange(last.r)
  /\ PreCars = {1, 2}
  /\ \A k \in PreCars :
       PreCar(k).State = StateIdle /\ ~Elevator_HasPendingRequests(PreCar(k))
  /\ Distance(2) < Distance(1)
  /\ chosen = 2

\* Car ka moves in direction dir at or before the floor of the hall call
\* last.r going dir, car kb moves against dir at a floor between ka and the
\* call (the floor of the call included), with as many pending stops.
AlignedAndNearer(ka, kb, dir) ==
  /\ last.r.Type = HallCall
  /\ last.r.Direction = dir
  /\ PreCar(ka).Direction = dir
  /\ Elevator_PendingCount(PreCar(ka)) = Elevator_PendingCount(PreCar(kb))
  /\ IF dir = DirUp
     THEN /\ PreCar(ka).State = StateMovingUp
          /\ PreCar(kb).State = StateMovingDown
          /\ PreCar(ka).CurrentFloor <= last.r.Floor
          /\ PreCar(ka).CurrentFloor < PreCar(kb).CurrentFloor
          /\ PreCar(kb).CurrentFloor <= last.r.Floor
     ELSE /\ PreCar(ka).State = StateMovingDown
          /\ PreCar(kb).State = StateMovingUp
          /\ PreCar(ka).CurrentFloor >= last.r.Floor
          /\ PreCar(ka).CurrentFloor > PreCar(kb).CurrentFloor
          /\ PreCar(kb).CurrentFloor >= last.r.Floor

\* C20: for a hall call going Up at floor r, a car moving Up at a floor
\* a <= r is selected over a car moving Down at a floor b with a < b <= r
\* when both have the same number of pending stops, although the Down-moving
\* car is nearer to r; symmetrically for a Down hall call.
C20_AlignmentBeatsDistance ==
  last.op = "Dispatch" =>
    \A ka, kb \in PreCars : \A dir \in {DirUp, DirDown} :
      AlignedAndNearer(ka, kb, dir) => chosen # kb

\* C20 as amended: the aligned car is selected over the nearer car moving
\* the other way when that car stands strictly before the floor of the
\* call (a < b < r for an Up call); when it stands at the floor of the call
\* (b = r) it is charged (MaxFloor - MinFloor)/2 only, and the aligned car
\* wins if its distance is below that, or equal to it with the aligned car
\* earlier in the car list.
C20_AlignmentBeatsDistanceBeforeFloor ==
  last.op = "Dispatch" =>
    \A ka, kb \in PreCars : \A dir \in {DirUp, DirDown} :
      (/\ AlignedAndNearer(ka, kb, dir)
       /\ \/ PreCar(kb).CurrentFloor # last.r.Floor
          \/ 2 * Distance(ka) < MaxFloor - MinFloor
          \/ 2 * Distance(ka) = MaxFloor - MinFloor /\ ka < kb)
        => chosen # kb

\* The first car, going Up from the bottom floor, was returned for an Up
\* hall call although the second car, going Down, stood nearer to it.
C20_Witness ==
  /\ last.op = "Dispatch"
  /\ PreCars = {1, 2}
  /\ AlignedAndNearer(1, 2, DirUp)
  /\ Distance(2) < Distance(1)
  /\ PreCar(2).CurrentFloor < last.r.Floor
  /\ chosen = 1

\* Car ki is Idle with no pending stops and car km, standing at the same
\* floor, is moving with at least one pending stop.
IdleBesideMover(ki, km) ==
  /\ ki # km
  /\ PreCar(ki).State = StateIdle
  /\ ~Elevator_HasPendingRequests(PreCar(ki))
  /\ PreCar(km).State \in {StateMovingUp, StateMovingDown}
  /\ Elevator_PendingCount(PreCar(km)) >= 1
  /\ PreCar(ki).CurrentFloor = PreCar(km).CurrentFloor

\* C21: of two cars standing at the same floor, one Idle with no pending
\* stops and one moving with at least one pending stop, Dispatch selects the
\* idle car for every in-range hall call (any floor, any direction),
\* whichever of the two comes first in the car list.
C21_IdleBeatsLoadedMover ==
  (/\ last.op = "Dispatch"
   /\ last.r.Type = HallCall
   /\ InRange(last.r)
   /\ Cardinality(PreCars) = 2) =>
     \A ki, km \in PreCars : IdleBesideMover(ki, km) => chosen = ki

\* The mover came first in the list, had the floor of the call ahead and the
\* direction of the call, and the idle car behind it was returned.
C21_Witness ==
  /\ last.op = "Dispatch"
  /\ last.r.Type = HallCall
  /\ InRange(last.r)
  /\ PreCars = {1, 2}
  /\ IdleBesideMover(2, 1)
  /\ PreCar(1).State = StateMovingUp
  /\ last.r.Direction = DirUp
  /\ last.r.Floor > PreCar(1).CurrentFloor
  /\ chosen = 2

\* The dispatcher of NumCars cars as built, after Dispatch of r1.
AfterFirstDispatch(r1) == Dispatcher_Dispatch(NewDispatcher(NumCars), r1)

\* r1 is a hall call going Up at a floor above the start floor.
UpCallAbove(r1) ==
  /\ r1.Type = HallCall
  /\ r1.Direction = DirUp
  /\ InRange(r1)
  /\ r1.Floor > MinFloor

\* C22: in a freshly built dispatcher with two cars, a hall call going Up at
\* a floor above the start floor followed, with no Step in between, by a
\* hall call going Down at any in-range floor is assigned to two different
\* cars.
C22_TwoCallsTwoCars ==
  (/\ last.op = "Dispatch"
   /\ last.r.Type = HallCall
   /\ last.r.Direction = DirDown
   /\ InRange(last.r)) =>
     \A r1 \in Request :
       (UpCallAbove(r1) /\ last.pre = AfterFirstDispatch(r1).d) =>
          /\ chosen # 0
          /\ AfterFirstDispatch(r1).ret # 0
          /\ chosen # AfterFirstDispatch(r1).ret

\* The first car got the Up call; the Down call, for a floor that the first
\* car is heading to, went to the second car.
C22_Witness ==
  /\ last.op = "Dispatch"
  /\ last.r.Type = HallCall
  /\ last.r.Direction = DirDown
  /\ \E r1 \in Request :
       /\ UpCallAbove(r1)
       /\ last.pre = AfterFirstDispatch(r1).d
       /\ AfterFirstDispatch(r1).ret = 1
       /\ r1.Floor = last.r.Floor
  /\ chosen = 2
  /\ dispatcher.Elevators[2].State = StateMovingUp

\* C23: AllIdle() is true for a freshly built dispatcher, and it is false
\* immediately after Dispatch of any in-range request on a dispatcher with
\* at least one car (the selected car is then moving, has its door open, or
\* has a pending stop).
C23_AllIdleFreshNotAfterDispatch ==
  /\ last.op = "New" => Dispatcher_AllIdle(dispatcher)
  /\ (last.op = "Dispatch" /\ InRange(last.r) /\ PreCars # {}) =>
       /\ ~Dispatcher_AllIdle(dispatcher)
       /\ chosen \in PreCars
       /\ \/ dispatcher.Elevators[chosen].State \in
               {StateMovingUp, StateMovingDown, StateDoorOpen}
          \/ Elevator_HasPendingRequests(dispatcher.Elevators[chosen])

\* All cars were idle and the request was for the floor of the nearest car:
\* that car opened its door and AllIdle() turned false.
C23_Witness ==
  /\ last.op = "Dispatch"
  /\ InRange(last.r)
  /\ PreCars = {1, 2}
  /\ Dispatcher_AllIdle(last.pre)
  /\ chosen = 2
  /\ PreCar(2).CurrentFloor = last.r.Floor
  /\ dispatcher.Elevators[2].State = StateDoorOpen
  /\ ~Dispatcher_AllIdle(dispatcher)

\* C24: after any finite sequence of Dispatch and StepAll calls, if no
\* further request is dispatched then repeated StepAll calls eventually make
\* AllIdle() true, and once AllIdle() is true it stays true under further
\* StepAll calls.
C24_SimulationTerminates ==
  /\ (phase = "drain") ~> Dispatcher_AllIdle(dispatcher)
  /\ [][(Dispatcher_AllIdle(dispatcher)
         /\ dispatcher' = Dispatcher_StepAll(dispatcher))
        => Dispatcher_AllIdle(dispatcher')]_vars

\* The caller has stopped dispatching with all requests used, the cars were
\* busy before the last StepAll, and now both are Idle and empty.
C24_Witness ==
  /\ phase = "drain"
  /\ nreq = MaxRequests
  /\ last.op = "StepAll"
  /\ ~last.idle
  /\ Len(dispatcher.Elevators) = 2
  /\ dispatcher.Elevators[2].CurrentFloor = MaxFloor
  /\ dispatcher.Elevators[1].CurrentFloor = MinFloor
  /\ Dispatcher_AllIdle(dispatcher)

\* The orders in which the n cars can be stepped within one tick.
StepOrders(n) ==
  {order \in [1..n -> 1..n] : \A a, b \in 1..n : order[a] = order[b] => a = b}

\* C25: StepAll applies exactly one Step to every car and returns one outcome
\* per car; the resulting state of all cars is the same for every order in
\* which the cars are stepped within the tick.
C25_StepAllOncePerCar ==
  last.op = "StepAll" =>
    /\ DOMAIN dispatcher.Elevators = DOMAIN last.pre.Elevators
    /\ \A k \in DOMAIN last.pre.Elevators :
         dispatcher.Elevators[k] = Elevator_Step(last.pre.Elevators[k])
    /\ DOMAIN last.msgs = DOMAIN last.pre.Elevators
    /\ \A k \in DOMAIN last.pre.Elevators :
         last.msgs[k] = Elevator_StepMsg(last.pre.Elevators[k])
    /\ \A order \in StepOrders(Len(last.pre.Elevators)) :
         Dispatcher_stepInOrder(last.pre, order) = dispatcher

\* A tick in which an idle first car stayed put and the second car moved and
\* stopped, each reported in its own slot.
C25_Witness ==
  /\ last.op = "StepAll"
  /\ Len(last.pre.Elevators) = 2
  /\ last.pre.Elevators[1].State = StateIdle
  /\ last.pre.Elevators[2].State = StateMovingUp
  /\ last.msgs[1].what = "idle"
  /\ last.msgs[2].what = "moved"
  /\ last.msgs[2].detail = "STOP"
  /\ dispatcher.Elevators[2].State = StateDoorOpen
  /\ dispatcher.Elevators[2].CurrentFloor
       = last.pre.Elevators[2].CurrentFloor + 1

\* The number of floors maxFloor - minFloor + 1, computed exactly, exceeds
\* the width of the mask.
RangeExceedsWidth(minFloor, maxFloor) ==
  GreaterThan(Exact_plus(Exact_minus(maxFloor, minFloor), Int64(1)),
              bitmaskMaxFloors)

\* C26: construction of the bitmask variant fails fatally exactly when the
\* floor range maxFloor - minFloor + 1 exceeds 64; for every range of at
\* most 64 floors it succeeds and yields an Idle car at minFloor with empty
\* stop sets.
C26_PanicsExactlyWhenTooWide ==
  last.op = "NewBitmaskElevator" =>
    /\ last.res.panic <=> RangeExceedsWidth(last.pre.minFloor,
                                            last.pre.maxFloor)
    /\ ~last.res.panic =>
         /\ last.res.e.State = StateIdle
         /\ last.res.e.CurrentFloor = last.pre.minFloor
         /\ last.res.e.upStops = {}
         /\ last.res.e.downStops = {}

\* The number of marks the snapshot of c shows, a floor in both sets twice.
MarkCount(c) ==
  Cardinality(StopsSnapshot(c).up) + Cardinality(StopsSnapshot(c).down)

\* C27: PendingCount() always equals the number of floors marked in the up
\* set plus the number of floors marked in the down set (a floor marked in
\* both counts twice, and a repeated request for an already marked floor
\* does not raise it); an idle car counts 0 and every cab call to a further
\* distinct other floor raises the count by one.
C27_PendingCountIsMarkCount ==
  /\ PendingCount(Car) = MarkCount(Car)
  /\ Car.State = StateIdle => PendingCount(Car) = 0
  /\ last.op = "AddRequest" =>
       /\ PendingCount(AddRequestTo(Car, last.r)) = PendingCount(Car)
       /\ (/\ last.r.Type = CabCall
           /\ InRange(last.r)
           /\ last.r.Floor # last.pre.CurrentFloor
           /\ last.r.Floor \notin Marked(last.pre)) =>
              PendingCount(Car) = PendingCount(last.pre) + 1

\* A cab call to a floor not yet marked has raised the count to 3, with
\* another floor marked in both sets.
C27_Witness ==
  /\ last.op = "AddRequest"
  /\ last.r.Type = CabCall
  /\ last.r.Floor \notin Marked(last.pre)
  /\ \E f \in Floors :
       f \in StopsSnapshot(Car).up /\ f \in StopsSnapshot(Car).down
  /\ PendingCount(last.pre) = 2
  /\ PendingCount(Car) = 3

\* The last operation was a Step of a car moving in direction dir.
MovedIn(dir) ==
  /\ last.op = "Step"
  /\ last.pre.State = (IF dir = DirUp THEN StateMovingUp ELSE StateMovingDown)

\* The stop rule for a car that has just arrived at floor f going in
\* direction dir, on the marks it had before the Step.
StopRule(dir, f) ==
  LET snap == StopsSnapshot(last.pre)
      own  == IF dir = DirUp THEN snap.up ELSE snap.down
      opp  == IF dir = DirUp THEN snap.down ELSE snap.up
      further == {g \in Marked(last.pre) :
                    IF dir = DirUp THEN g > f ELSE g < f}
  IN f \in own \/ (f \in opp /\ further = {})

\* C28: after a moving car advances one floor in direction d, it opens its
\* door at the new floor if and only if that floor is marked in the d stop
\* set, or that floor is marked in the opposite stop set and no pending stop
\* lies strictly further in direction d; a car going up passes a floor
\* marked only in the down set while stops remain above it.
C28_StopRule ==
  /\ MovedIn(DirUp) =>
       /\ Car.CurrentFloor = last.pre.CurrentFloor + 1
       /\ Car.State = StateDoorOpen <=> StopRule(DirUp, Car.CurrentFloor)
       /\ Car.State # StateDoorOpen => Car.State = StateMovingUp
  /\ MovedIn(DirDown) =>
       /\ Car.CurrentFloor = last.pre.CurrentFloor - 1
       /\ Car.State = StateDoorOpen <=> StopRule(DirDown, Car.CurrentFloor)
       /\ Car.State # StateDoorOpen => Car.State = StateMovingDown

\* A car going up has passed a floor marked only in the down set, a stop
\* remaining above it; the mark is still there.
C28_Witness ==
  /\ MovedIn(DirUp)
  /\ Car.State = StateMovingUp
  /\ Car.CurrentFloor \in StopsSnapshot(last.pre).down
  /\ Car.CurrentFloor \notin StopsSnapshot(last.pre).up
  /\ \E g \in Marked(last.pre) : g > Car.CurrentFloor
  /\ Car.CurrentFloor \in StopsSnapshot(Car).down

\* The last Step moved the car one floor in direction dir and it stopped.
StoppedIn(dir) == MovedIn(dir) /\ Car.State = StateDoorOpen

\* The marks of snapshot s at the floors other than f.
Elsewhere(s, f) == [up |-> s.up \ {f}, down |-> s.down \ {f}]

\* C29: on a stop the current floor is cleared only from the stop sets that
\* caused the stop: when a car travelling in direction d stops at a floor
\* marked in both sets while pending stops remain further in direction d,
\* the mark in the opposite set is kept; marks at all other floors are
\* unchanged.
C29_OnlyCausingSetCleared ==
  \A dir \in {DirUp, DirDown} :
    StoppedIn(dir) =>
      LET f    == Car.CurrentFloor
          pre  == StopsSnapshot(last.pre)
          post == StopsSnapshot(Car)
          further == {g \in Marked(last.pre) :
                        IF dir = DirUp THEN g > f ELSE g < f}
      IN /\ Elsewhere(post, f) = Elsewhere(pre, f)
         /\ (f \in pre.up /\ f \in pre.down /\ further # {}) =>
              IF dir = DirUp
              THEN f \notin post.up /\ f \in post.down
              ELSE f \notin post.down /\ f \in post.up

\* The last operation was a Step of a car whose door was open with the
\* timer at t.
DoorStep(t) ==
  /\ last.op = "Step"
  /\ last.pre.State = StateDoorOpen
  /\ last.pre.doorTimer = t

\* Direction selection has run on the marks the car had: the car is Idle
\* with direction Idle when nothing is marked, and otherwise moves towards a
\* marked floor.
DirectionSelected ==
  /\ Marked(last.pre) = {} =>
       Car.State = StateIdle /\ Car.Direction = DirIdle
  /\ Marked(last.pre) # {} =>
       \/ /\ Car.State = StateMovingUp
          /\ Car.Direction = DirUp
          /\ \E f \in Marked(last.pre) : f > Car.CurrentFloor
       \/ /\ Car.State = StateMovingDown
          /\ Car.Direction = DirDown
          /\ \E f \in Marked(last.pre) : f < Car.CurrentFloor

\* C30: a car enters DoorOpen with doorTimer = 2; when no request for that
\* floor arrives it is still DoorOpen at the same floor after the next Step,
\* and on the second Step the door closes and direction selection runs in
\* that same Step; the car does not move while the door is open.
C30_DoorDuration ==
  /\ Car.State = StateDoorOpen => Car.doorTimer \in 1..doorOpenSteps
  /\ (last.op \in {"Step", "AddRequest"}
      /\ last.pre.State # StateDoorOpen
      /\ Car.State = StateDoorOpen) => Car.doorTimer = doorOpenSteps
  /\ (last.op \in {"Step", "AddRequest"}
      /\ last.pre.State = StateDoorOpen) =>
       Car.CurrentFloor = last.pre.CurrentFloor
  /\ (last.op = "AddRequest"
      /\ last.pre.State = StateDoorOpen
      /\ last.r.Floor # last.pre.CurrentFloor) =>
       Car.State = StateDoorOpen /\ Car.doorTimer = last.pre.doorTimer
  /\ DoorStep(2) =>
       /\ Car.State = StateDoorOpen
       /\ Car.doorTimer = 1
       /\ StopsSnapshot(Car) = StopsSnapshot(last.pre)
  /\ DoorStep(1) =>
       /\ Car.State # StateDoorOpen
       /\ StopsSnapshot(Car) = StopsSnapshot(last.pre)
       /\ DirectionSelected

\* The second Step after a stop below the top floor closed the door and
\* sent the car on upwards.
C30_Witness ==
  /\ DoorStep(1)
  /\ Car.State = StateMovingUp
  /\ Car.Direction = DirUp
  /\ Car.CurrentFloor = last.pre.CurrentFloor
  /\ Car.CurrentFloor > MinFloor
  /\ last.pre.Direction = DirUp

\* The cached bounds of the flag-array car c are the lowest and the highest
\* marked floor, or the empty sentinels when nothing is marked.
BoundsExact(c) ==
  IF Marked(c) = {}
  THEN c.minRequest > c.maxRequest
  ELSE /\ c.minRequest = SetMin(Marked(c))
       /\ c.maxRequest = SetMax(Marked(c))

\* C31: in every reachable state of each variant hasStopsAbove() is true if
\* and only if some floor strictly above CurrentFloor is marked in the up set
\* or the down set, and hasStopsBelow() likewise for floors strictly below;
\* for the flag-array variant the cached minRequest/maxRequest equal the
\* lowest/highest marked floor (minRequest > maxRequest when nothing is
\* marked).
C31_HasAboveBelowExact ==
  /\ hasStopsAbove(Car) <=> (\E f \in Marked(Car) : f > Car.CurrentFloor)
  /\ hasStopsBelow(Car) <=> (\E f \in Marked(Car) : f < Car.CurrentFloor)
  /\ impl = "bool" => BoundsExact(Car)

\* The changes of State the state graph allows.
StateGraph ==
  { <<StateIdle, StateMovingUp>>, <<StateIdle, StateMovingDown>>,
    <<StateMovingUp, StateDoorOpen>>, <<StateMovingDown, StateDoorOpen>>,
    <<StateDoorOpen, StateIdle>> }

\* C32: every change of a car's State made by one AddRequest or Step call is
\* one of Idle to MovingUp, Idle to MovingDown, MovingUp to DoorOpen,
\* MovingDown to DoorOpen, or DoorOpen to Idle.
C32_StateGraph ==
  (last.op \in {"AddRequest", "Step"} /\ Car.State # last.pre.State) =>
     <<last.pre.State, Car.State>> \in StateGraph

\* The changes of State that one call makes besides: a request for the floor
\* of an Idle car opens its door, and the Step that closes the door runs
\* direction selection and may start the car at once.
StateShortcuts ==
  { <<StateIdle, StateDoorOpen>>,
    <<StateDoorOpen, StateMovingUp>>, <<StateDoorOpen, StateMovingDown>> }

\* C32 (amended): every change of a car's State made by one AddRequest or
\* Step call is one of the five changes of the state graph, or Idle to
\* DoorOpen (made only by AddRequest), or DoorOpen to MovingUp or MovingDown
\* (made only by Step).
C32_StateGraphWithShortcuts ==
  (last.op \in {"AddRequest", "Step"} /\ Car.State # last.pre.State) =>
     /\ <<last.pre.State, Car.State>> \in StateGraph \cup StateShortcuts
     /\ (last.pre.State = StateIdle /\ Car.State = StateDoorOpen) =>
          last.op = "AddRequest"
     /\ (last.pre.State = StateDoorOpen) => last.op = "Step"
     /\ (last.pre.State \in {StateMovingUp, StateMovingDown}) =>
          last.op = "Step"

\* The Step that closed the door sent the car on downwards in the same call.
C32_Witness ==
  /\ last.op = "Step"
  /\ last.pre.State = StateDoorOpen
  /\ last.pre.doorTimer = 1
  /\ Car.State = StateMovingDown
  /\ Car.CurrentFloor = MaxFloor

\* A car going up has passed a floor without stopping and moves on with a
\* stop marked above it.
C33_Witness ==
  /\ last.op = "Step"
  /\ last.pre.State = StateMovingUp
  /\ Car.State = StateMovingUp
  /\ Car.CurrentFloor = last.pre.CurrentFloor + 1
  /\ \E f \in Marked(Car) : f > Car.CurrentFloor

\* The Step that closed the door at the highest stop reversed the car: it
\* now moves down with direction Down.
C34_Witness ==
  /\ last.op = "Step"
  /\ last.pre.State = StateDoorOpen
  /\ last.pre.Direction = DirUp
  /\ Car.State = StateMovingDown
  /\ Car.Direction = DirDown
  /\ Car.CurrentFloor < MaxFloor

\* C33: State = MovingUp implies some floor strictly above CurrentFloor is
\* marked in a stop set, and State = MovingDown implies some floor strictly
\* below is marked.
C33_MovingHasStopAhead ==
  /\ Car.State = StateMovingUp => \E f \in Marked(Car) : f > Car.CurrentFloor
  /\ Car.State = StateMovingDown => \E f \in Marked(Car) : f < Car.CurrentFloor

\* C34: State = MovingUp implies Direction = Up, State = MovingDown implies
\* Direction = Down, and State = Idle implies Direction = Idle.
C34_StateMatchesDirection ==
  /\ Car.State = StateMovingUp => Car.Direction = DirUp
  /\ Car.State = StateMovingDown => Car.Direction = DirDown
  /\ Car.State = StateIdle => Car.Direction = DirIdle

\* C35: the bitmask variant and the bitset variant, started with the same
\* bounds and driven by the same interleaving of AddRequest and Step calls,
\* have after every call the same CurrentFloor, State, Direction, doorTimer,
\* up set and down set.
C35_BitmaskMatchesBitset ==
  /\ bitmaskElev.CurrentFloor = bitsetElev.CurrentFloor
  /\ bitmaskElev.State = bitsetElev.State
  /\ bitmaskElev.Direction = bitsetElev.Direction
  /\ bitmaskElev.doorTimer = bitsetElev.doorTimer
  /\ Bitmask_StopsSnapshot(bitmaskElev) = Bitset_StopsSnapshot(bitsetElev)
  /\ Bitmask_hasStopsAbove(bitmaskElev) = Bitset_hasStopsAbove(bitsetElev)
  /\ Bitmask_hasStopsBelow(bitmaskElev) = Bitset_hasStopsBelow(bitsetElev)

\* Both cars have stopped going up at a floor marked in both sets with
\* nothing above, so that the turnaround cleared the down mark as well, and
\* a floor below is still marked.
C35_Witness ==
  /\ last.op = "Step"
  /\ last.pre.State = StateMovingUp
  /\ bitmaskElev.State = StateDoorOpen
  /\ bitsetElev.State = StateDoorOpen
  /\ bitsetElev.CurrentFloor \in Bitset_StopsSnapshot(last.pre).up
  /\ bitsetElev.CurrentFloor \in Bitset_StopsSnapshot(last.pre).down
  /\ bitmaskElev.CurrentFloor \notin Bitmask_StopsSnapshot(bitmaskElev).down
  /\ bitsetElev.CurrentFloor \notin Bitset_StopsSnapshot(bitsetElev).down
  /\ Bitset_hasStopsBelow(bitsetElev)

\* C36: in any reachable car state, applying the same request twice in a row
\* leaves the car in exactly the state that applying it once does (same
\* CurrentFloor, State, Direction, doorTimer, stop sets and cached bounds).
C36_AddRequestIdempotent ==
  /\ last.op = "AddRequest" => AddRequestTo(Car, last.r) = Car
  /\ \A r \in Request :
       AddRequestTo(AddRequestTo(Car, r), r) = AddRequestTo(Car, r)

\* A hall call marked a new floor of a moving car, and the same call applied
\* to the car again changes nothing.
C36_Witness ==
  /\ last.op = "AddRequest"
  /\ last.r.Type = HallCall
  /\ last.pre.State = StateMovingUp
  /\ last.r.Floor \notin Marked(last.pre)
  /\ last.r.Floor \in Marked(Car)
  /\ Car # last.pre
  /\ AddRequestTo(Car, last.r) = Car

\* C37: when State is MovingUp, MovingDown or DoorOpen, AddRequest leaves
\* State, Direction and CurrentFloor unchanged (it can only mark a stop or,
\* for the current floor of a DoorOpen car, reset the door timer), and
\* AddRequest never clears a mark at any floor other than the car's current
\* floor.
C37_NoDiversion ==
  last.op = "AddRequest" =>
    LET pre  == StopsSnapshot(last.pre)
        post == StopsSnapshot(Car)
        cur  == last.pre.CurrentFloor
    IN /\ last.pre.State # StateIdle =>
            /\ Car.State = last.pre.State
            /\ Car.Direction = last.pre.Direction
            /\ Car.CurrentFloor = cur
            /\ Car.doorTimer # last.pre.doorTimer =>
                 /\ last.pre.State = StateDoorOpen
                 /\ last.r.Floor = cur
                 /\ Car.doorTimer = doorOpenSteps
            /\ (last.pre.State # StateDoorOpen \/ last.r.Floor # cur) =>
                 /\ pre.up \subseteq post.up
                 /\ pre.down \subseteq post.down
       /\ pre.up \ {cur} \subseteq post.up
       /\ pre.down \ {cur} \subseteq post.down

\* A car moving up from above the lowest floor took a request for a floor
\* below it: the floor is marked and the car moves on upwards.
C37_Witness ==
  /\ last.op = "AddRequest"
  /\ last.pre.State = StateMovingUp
  /\ last.r.Floor < last.pre.CurrentFloor
  /\ InRange(last.r)
  /\ last.r.Floor \in Marked(Car)
  /\ last.r.Floor \notin Marked(last.pre)
  /\ Car.State = StateMovingUp
  /\ Car.Direction = DirUp

====
